---- MODULE Spec2Model ----
(***************************************************************************)
(* Crime-aware route safety scoring: the two route engines of the          *)
(* repository (utils_maps.py and free_api_utils.py) as one state machine.  *)
(*                                                                         *)
(* Coordinates are whole micro-degrees (1e-6 degree); a division rounds    *)
(* down.  A percentage is kept exact as the pair [num, den] standing for   *)
(* num/den, so that a comparison with a threshold is the comparison the    *)
(* float code makes (checked equal for every route of up to 40 points).    *)
(* A route is a sequence of <<lon, lat>> points as in the source; incident *)
(* rows carry LAT and LON.                                                 *)
(***************************************************************************)
EXTENDS Integers, Sequences, FiniteSets, TLC

\* ------------------------------------------------------------------------
\* Bounds of the model
\* ------------------------------------------------------------------------
MaxIncidents == 3
MaxRouteLen == 2
MaxSegments == 20
MaxRecords == 2

\* ------------------------------------------------------------------------
\* Program constants
\* ------------------------------------------------------------------------
HighCrimeRadius == 3000
MediumCrimeRadius == 5000
ProximityThreshold == 5000
HighRiskPct == 15
MediumRiskPct == 5
MediumCrimePct == 30
FreeHighPct == 10
FreeMediumPct == 3
FreeTotalPct == 20
ExcellentPct == 3
FreeExcellentPct == 2
OsrmTimeout == 10
OsrmMaxRoutes == 3

\* ------------------------------------------------------------------------
\* Small helpers
\* ------------------------------------------------------------------------
Sq(x) == x * x

Range(s) == {s[i] : i \in DOMAIN s}

Abs(x) == IF x < 0 THEN 0 - x ELSE x

\* sqrt(dlat^2 + dlon^2) < r, on a route point <<lon, lat>> and an incident
\* row; a coordinate difference of r or more decides it before squaring
WithinRadius(row, pt, r) ==
    /\ Abs(row.lat - pt[2]) < r
    /\ Abs(row.lon - pt[1]) < r
    /\ Sq(row.lat - pt[2]) + Sq(row.lon - pt[1]) < Sq(r)

\* a percentage count/total*100 as an exact fraction; 0 is Pct(0, 1)
Pct(count, total) == [num |-> 100 * count, den |-> total]

PctGT(p, thr) == p.num > thr * p.den

PctLT(p, thr) == p.num < thr * p.den

PctEQ(p, v) == p.num = v * p.den

PctSum(p, q) == [num |-> p.num * q.den + q.num * p.den, den |-> p.den * q.den]

PctLess(p, q) == p.num * q.den < q.num * p.den

\* a route point that cannot be unpacked into lon, lat
BadPoint == <<0, 0, 0>>

IsPoint(pt) == Len(pt) = 2

\* ------------------------------------------------------------------------
\* Incident data frames
\* ------------------------------------------------------------------------
\* a pandas frame: the columns it has and its rows; None is NoneDF
NoneDF == [isNone |-> TRUE, cols |-> {}, rows |-> {}]

Frame(cols, rows) == [isNone |-> FALSE, cols |-> cols, rows |-> rows]

\* DataFrame.empty
DfEmpty(df) == df.rows = {} \/ df.cols = {}

\* crime_df[crime_df["Cluster"] == c][["LAT", "LON"]].values
CrimePoints(df, c) == {r \in df.rows : r.cluster = c}

\* the three column lookups fail with KeyError when a column is missing
ExposureColumns == {"Cluster", "LAT", "LON"}

\* the model's view of a call: the dict it returned, or the exception that
\* left it; st_error records a message put on the page by the call
Returned(dict, shown) == [status |-> "returned", value |-> dict, st_error |-> shown]

Raised(exc, shown) == [status |-> "raised", value |-> <<>>, exc |-> exc, st_error |-> shown]

\* ------------------------------------------------------------------------
\* utils_maps.calculate_detailed_crime_exposure
\* ------------------------------------------------------------------------
\* SegmentClass with the Medium test made first
SegmentClass_MediumFirst(pt, df) ==
    IF \E r \in CrimePoints(df, 1) : WithinRadius(r, pt, MediumCrimeRadius)
    THEN "medium"
    ELSE IF \E r \in CrimePoints(df, 0) : WithinRadius(r, pt, HighCrimeRadius)
         THEN "high"
         ELSE "safe"

\* one pass of the loop body: High first, Medium only if not High, else Safe
SegmentClass(pt, df) ==
    IF \E r \in CrimePoints(df, 0) : WithinRadius(r, pt, HighCrimeRadius)
    THEN "high"
    ELSE IF \E r \in CrimePoints(df, 1) : WithinRadius(r, pt, MediumCrimeRadius)
         THEN "medium"
         ELSE "safe"

SegmentCount(route, df, class) ==
    Cardinality({i \in DOMAIN route : SegmentClass(route[i], df) = class})

\* RiskLevel with the Medium test on the sum of the two percentages
RiskLevel_SumForMedium(high_pct, medium_pct) ==
    IF PctGT(high_pct, HighRiskPct) THEN "high_risk"
    ELSE IF PctGT(high_pct, MediumRiskPct)
            \/ PctGT(PctSum(high_pct, medium_pct), MediumCrimePct)
         THEN "medium_risk"
         ELSE "low_risk"

\* the if/elif/else on the two percentages (lines 139-145)
RiskLevel(high_pct, medium_pct) ==
    IF PctGT(high_pct, HighRiskPct) THEN "high_risk"
    ELSE IF PctGT(high_pct, MediumRiskPct) \/ PctGT(medium_pct, MediumCrimePct)
         THEN "medium_risk"
         ELSE "low_risk"

\* risk_score = high*3 + medium*1 + safe*0
RiskScore(high, medium, safe) == (high * 3) + (medium * 1) + (safe * 0)

\* the dict of the early return (lines 84-95)
EmptyExposure(route) ==
    [high_crime_segments |-> 0, medium_crime_segments |-> 0, safe_segments |-> 0,
     total_segments |-> Len(route),
     high_crime_percentage |-> Pct(0, 1), medium_crime_percentage |-> Pct(0, 1),
     safe_percentage |-> Pct(0, 1),
     overall_risk_score |-> 0, risk_level |-> "low_risk"]

\* the dict of the except branch (lines 159-171)
FallbackExposure(total_segments) ==
    [high_crime_segments |-> 0, medium_crime_segments |-> 0,
     safe_segments |-> total_segments, total_segments |-> total_segments,
     high_crime_percentage |-> Pct(0, 1), medium_crime_percentage |-> Pct(0, 1),
     safe_percentage |-> Pct(100, 100),
     overall_risk_score |-> 0, risk_level |-> "low_risk"]

\* the dict of the normal return (lines 103-157)
ComputedExposure(route, df) ==
    LET high == SegmentCount(route, df, "high")
        medium == SegmentCount(route, df, "medium")
        safe == SegmentCount(route, df, "safe")
        total == Len(route)
        high_pct == Pct(high, total)
        medium_pct == Pct(medium, total)
    IN  [high_crime_segments |-> high, medium_crime_segments |-> medium,
         safe_segments |-> safe, total_segments |-> total,
         high_crime_percentage |-> high_pct, medium_crime_percentage |-> medium_pct,
         safe_percentage |-> Pct(safe, total),
         overall_risk_score |-> RiskScore(high, medium, safe),
         risk_level |-> RiskLevel(high_pct, medium_pct)]

calculate_detailed_crime_exposure(route, df) ==
    IF df.isNone \/ DfEmpty(df) \/ route = <<>>
    THEN Returned(EmptyExposure(route), FALSE)
    ELSE IF ~(ExposureColumns \subseteq df.cols)
         \* KeyError before total_segments is bound: the handler's own use
         \* of total_segments raises UnboundLocalError out of the function
         THEN Raised("UnboundLocalError", TRUE)
         ELSE IF \E i \in DOMAIN route : ~IsPoint(route[i])
              \* "for lon, lat in route_coords" fails to unpack: handler runs
              THEN Returned(FallbackExposure(Len(route)), TRUE)
              ELSE Returned(ComputedExposure(route, df), FALSE)

\* ------------------------------------------------------------------------
\* free_api_utils.analyze_route_crime_exposure / determine_route_safety_level
\* ------------------------------------------------------------------------
\* loop body: High, then (after "continue") Medium, with one radius for both
FreeSegmentClass(pt, df) ==
    IF \E r \in CrimePoints(df, 0) : WithinRadius(r, pt, ProximityThreshold)
    THEN "high"
    ELSE IF \E r \in CrimePoints(df, 1) : WithinRadius(r, pt, ProximityThreshold)
         THEN "medium"
         ELSE "safe"

FreeSegmentCount(route, df, class) ==
    Cardinality({i \in DOMAIN route : FreeSegmentClass(route[i], df) = class})

\* the dict without percentages (early return and except branch)
BareExposure(total_segments) ==
    [high_crime_exposure |-> 0, medium_crime_exposure |-> 0,
     total_segments |-> total_segments]

analyze_route_crime_exposure(route, df) ==
    IF df.isNone \/ DfEmpty(df) \/ route = <<>>
    THEN Returned(BareExposure(Len(route)), FALSE)
    ELSE IF ~(ExposureColumns \subseteq df.cols)
         THEN Raised("UnboundLocalError", FALSE)
         ELSE IF \E i \in DOMAIN route : ~IsPoint(route[i])
              THEN Returned(BareExposure(Len(route)), FALSE)
              ELSE LET high == FreeSegmentCount(route, df, "high")
                       medium == FreeSegmentCount(route, df, "medium")
                       total == Len(route)
                   IN  Returned([high_crime_exposure |-> high,
                                 medium_crime_exposure |-> medium,
                                 total_segments |-> total,
                                 high_crime_percentage |-> Pct(high, total),
                                 medium_crime_percentage |-> Pct(medium, total)],
                                FALSE)

\* the if/elif/else of determine_route_safety_level (lines 336-341)
FreeSafetyLevel(high_pct, medium_pct) ==
    IF PctGT(high_pct, FreeHighPct) THEN "high_risk"
    ELSE IF PctGT(high_pct, FreeMediumPct)
            \/ PctGT(PctSum(high_pct, medium_pct), FreeTotalPct)
         THEN "medium_risk"
         ELSE "low_risk"

\* exposure_analysis["high_crime_percentage"] is a KeyError on a bare dict
determine_route_safety_level(exposure) ==
    IF {"high_crime_percentage", "medium_crime_percentage"} \subseteq DOMAIN exposure
    THEN Returned([level |-> FreeSafetyLevel(exposure.high_crime_percentage,
                                             exposure.medium_crime_percentage)], FALSE)
    ELSE Raised("KeyError", FALSE)

\* ------------------------------------------------------------------------
\* Loading and classifying the incident records
\* ------------------------------------------------------------------------
\* columns of the parquet file that the route engines read
RawColumns == {"LAT", "LON", "AREA NAME", "Crm Cd Desc", "TIME OCC"}

\* a TIME OCC value that does not convert to an hour (NaN, text)
BadTime == 0 - 1

\* a row of the file; desc is the set of keywords that occur in the
\* upper-cased 'Crm Cd Desc' text (the code tests "keyword in crime_desc")
RawRow(area, lat, lon, desc, time_occ) ==
    [area |-> area, lat |-> lat, lon |-> lon, desc |-> desc, time_occ |-> time_occ]

\* the row with its 'Time of Day' and 'Cluster' columns
ClassifiedRow(r, tod, cluster) ==
    [area |-> r.area, lat |-> r.lat, lon |-> r.lon, desc |-> r.desc,
     time_occ |-> r.time_occ, tod |-> tod, cluster |-> cluster]

\* np.select over the hour: [6,12) Morning, [12,16) Afternoon, [16,18) Evening
TimeOfDay(hour) ==
    IF hour >= 6 /\ hour < 12 THEN "Morning"
    ELSE IF hour >= 12 /\ hour < 16 THEN "Afternoon"
    ELSE IF hour >= 16 /\ hour < 18 THEN "Evening"
    ELSE "Night"

\* str(TIME OCC).zfill(4)[:2] as int, for a whole-number TIME OCC
TimeOccHour(time_occ) == time_occ \div 100

\* data_preprocess.add_time_of_day on the rows of a frame: the hour column is
\* converted as a whole, and one bad value sends every row to hour 12
add_time_of_day(rows) ==
    IF \E r \in rows : r.time_occ = BadTime
    THEN {ClassifiedRow(r, TimeOfDay(12), 2) : r \in rows}
    ELSE {ClassifiedRow(r, TimeOfDay(TimeOccHour(r.time_occ)), 2) : r \in rows}

\* add_time_of_day on a frame: without a 'TIME OCC' column every row gets
\* 'Unknown' (lines 128-132), otherwise the rows are bucketed by hour
add_time_of_day_frame(df) ==
    IF "TIME OCC" \notin df.cols
    THEN Frame(df.cols \cup {"Time of Day"}, {ClassifiedRow(r, "Unknown", 2) : r \in df.rows})
    ELSE Frame(df.cols \cup {"Time of Day"}, add_time_of_day(df.rows))

\* the frame object that was handed to add_time_of_day, as its caller finds
\* it after the call: the columns are assigned on the argument itself
\* (df['time_str'], df['Time_occ_hour'], df['Time of Day'], lines 135-152,
\* or df['Time of Day'] alone, line 130) and only then is df rebound to the
\* new frame that drop() returns (line 155)
add_time_of_day_argument(df) ==
    IF "TIME OCC" \notin df.cols
    THEN Frame(df.cols \cup {"Time of Day"},
               {ClassifiedRow(r, "Unknown", 2) : r \in df.rows})
    ELSE Frame(df.cols \cup {"time_str", "Time_occ_hour", "Time of Day"},
               add_time_of_day(df.rows))

\* data_preprocess.load_crime_data: an unreadable file gives pd.DataFrame()
load_crime_data(file) ==
    IF file.ok
    THEN Frame(RawColumns \cup {"Time of Day"}, add_time_of_day(file.rows))
    ELSE Frame({}, {})

\* time_mapping.get(time_of_travel); "None" when the label is not mapped
TimeMapping(time_of_travel) ==
    CASE time_of_travel = "Morning (6-12)" -> "Morning"
      [] time_of_travel = "Afternoon (12-16)" -> "Afternoon"
      [] time_of_travel = "Evening (16-18)" -> "Evening"
      [] time_of_travel = "Night (18-6)" -> "Night"
      [] OTHER -> "None"

\* df[df['Time of Day'] == target_time] when a bucket is requested
TimeFilter(df, time_of_travel) ==
    IF time_of_travel # "Any Time" /\ TimeMapping(time_of_travel) # "None"
    THEN Frame(df.cols, {r \in df.rows : r.tod = TimeMapping(time_of_travel)})
    ELSE df

high_severity_keywords ==
    {"ROBBERY", "ASSAULT", "BURGLARY", "RAPE", "HOMICIDE", "MURDER", "KIDNAPPING",
     "ARSON", "SHOTS FIRED", "CRIMINAL THREATS", "BATTERY", "INTIMATE PARTNER",
     "CHILD ABUSE", "WEAPONS"}

medium_severity_keywords ==
    {"THEFT", "VANDALISM", "FRAUD", "SHOPLIFTING", "VEHICLE", "STOLEN",
     "TRESPASSING", "PICKPOCKET", "BURGLARY TOOLS", "FORGERY", "EMBEZZLEMENT",
     "BRIBERY"}

\* classify_advanced_crime_severity with the Medium keywords tested first
classify_advanced_crime_severity_MediumFirst(row) ==
    IF row.desc \cap medium_severity_keywords # {} THEN 1
    ELSE IF row.desc \cap high_severity_keywords # {} THEN 0
    ELSE 2

\* utils_maps: High keywords first, then Medium, else Low
classify_advanced_crime_severity(row) ==
    IF row.desc \cap high_severity_keywords # {} THEN 0
    ELSE IF row.desc \cap medium_severity_keywords # {} THEN 1
    ELSE 2

serious_crimes ==
    {"ROBBERY", "ASSAULT", "BURGLARY", "RAPE", "HOMICIDE", "KIDNAPPING", "ARSON",
     "SHOTS FIRED", "CRIMINAL THREATS"}

medium_crimes ==
    {"THEFT", "VANDALISM", "FRAUD", "BATTERY", "SHOPLIFTING", "VEHICLE", "STOLEN",
     "TRESPASSING"}

\* free_api_utils: the same order over its own keyword lists
classify_crime_severity(row) ==
    IF row.desc \cap serious_crimes # {} THEN 0
    ELSE IF row.desc \cap medium_crimes # {} THEN 1
    ELSE 2

\* the frame with 'Time of Day' ensured (add_time_of_day on a frame that
\* lacks 'TIME OCC' only adds an 'Unknown' column)
EnsureTimeOfDay(df) ==
    IF "Time of Day" \in df.cols THEN df
    ELSE Frame(df.cols \cup {"Time of Day"}, df.rows)

\* utils_maps.load_time_filtered_crime_data
load_time_filtered_crime_data(file, time_of_travel) ==
    LET df == TimeFilter(EnsureTimeOfDay(load_crime_data(file)), time_of_travel)
    IN  Frame(df.cols \cup {"Cluster"},
              {ClassifiedRow(r, r.tod, classify_advanced_crime_severity(r)) : r \in df.rows})

\* free_api_utils.load_crime_data_with_time_filter
load_crime_data_with_time_filter(file, time_of_travel) ==
    LET df == TimeFilter(EnsureTimeOfDay(load_crime_data(file)), time_of_travel)
    IN  IF "Cluster" \in df.cols THEN df
        ELSE Frame(df.cols \cup {"Cluster"},
                   {ClassifiedRow(r, r.tod, classify_crime_severity(r)) : r \in df.rows})

\* crime_df[crime_df['AREA NAME'] == area][['LAT', 'LON']].dropna()
AreaData(df, area) == {r \in df.rows : r.area = area}

RECURSIVE SumLat(_)
SumLat(rows) ==
    IF rows = {} THEN 0
    ELSE LET r == CHOOSE x \in rows : TRUE IN r.lat + SumLat(rows \ {r})

RECURSIVE SumLon(_)
SumLon(rows) ==
    IF rows = {} THEN 0
    ELSE LET r == CHOOSE x \in rows : TRUE IN r.lon + SumLon(rows \ {r})

\* start_data.mean() as (lat, lon)
MeanCoords(rows) ==
    <<SumLat(rows) \div Cardinality(rows), SumLon(rows) \div Cardinality(rows)>>

\* ------------------------------------------------------------------------
\* utils_maps.generate_safety_filtered_routes: the eight base routes
\* ------------------------------------------------------------------------
RiskTiers == {"low_risk", "medium_risk", "high_risk"}

\* detour in micro-degrees
route_patterns ==
    <<[name |-> "direct", waypoints |-> 12, detour |-> 0],
      [name |-> "northern_arc", waypoints |-> 15, detour |-> 8000],
      [name |-> "southern_arc", waypoints |-> 15, detour |-> 0 - 8000],
      [name |-> "eastern_detour", waypoints |-> 18, detour |-> 6000],
      [name |-> "western_detour", waypoints |-> 18, detour |-> 0 - 6000],
      [name |-> "conservative", waypoints |-> 22, detour |-> 12000],
      [name |-> "scenic_route", waypoints |-> 20, detour |-> 10000],
      [name |-> "highway_style", waypoints |-> 10, detour |-> 2000]>>

num_base_routes == 8

\* the progress window, in hundredths, in which a pattern is bent
PatternWindow(name) ==
    CASE name \in {"northern_arc", "southern_arc", "scenic_route"} -> <<20, 80>>
      [] name \in {"eastern_detour", "western_detour"} -> <<30, 70>>
      [] name = "conservative" -> <<15, 85>>
      [] name = "highway_style" -> <<40, 60>>
      [] OTHER -> <<1, 0>>

\* lo <= j / waypoints <= hi, with lo and hi in hundredths
InWindow(j, waypoints, lo, hi) == lo * waypoints <= 100 * j /\ 100 * j <= hi * waypoints

\* a + (b - a) * (j / waypoints)
Interpolate(a, b, j, waypoints) == a + ((b - a) * j) \div waypoints

\* detour * trig term of each pattern at waypoint j (index j+1), in
\* micro-degrees, as lines 208-235 compute it: latitude terms
PatternLatTerm ==
    [direct |-> <<0, 0, 0, 0, 0, 0, 0, 0, 0, 0, 0, 0, 0>>,
     northern_arc |-> <<0, 0, 0, 4702, 5945, 6928, 7608, 7956, 7956, 7608, 6928, 5945, 4702, 0, 0, 0>>,
     southern_arc |-> <<0, 0, 0, -4702, -5945, -6928, -7608, -7956, -7956, -7608, -6928, -5945, -4702, 0, 0, 0>>,
     eastern_detour |-> <<0, 0, 0, 0, 0, 0, 0, 0, 0, 0, 0, 0, 0, 0, 0, 0, 0, 0, 0>>,
     western_detour |-> <<0, 0, 0, 0, 0, 0, 0, 0, 0, 0, 0, 0, 0, 0, 0, 0, 0, 0, 0>>,
     conservative |-> <<0, 0, 0, 0, 8315, 7067, 4541, 1195, -2367, -5501, -7641, -8400, -7641, -5501, -2367, 1195, 4541, 7067, 8315, 0, 0, 0, 0>>,
     scenic_route |-> <<0, 0, 0, 0, 9511, 10000, 9511, 8090, 5878, 3090, 0, -3090, -5878, -8090, -9511, -10000, -9511, 0, 0, 0, 0>>,
     highway_style |-> <<0, 0, 0, 0, -1902, 0, 1902, 0, 0, 0, 0>>]

\* longitude terms
PatternLonTerm ==
    [direct |-> <<0, 0, 0, 0, 0, 0, 0, 0, 0, 0, 0, 0, 0>>,
     northern_arc |-> <<0, 0, 0, 0, 0, 0, 0, 0, 0, 0, 0, 0, 0, 0, 0, 0>>,
     southern_arc |-> <<0, 0, 0, 0, 0, 0, 0, 0, 0, 0, 0, 0, 0, 0, 0, 0>>,
     eastern_detour |-> <<0, 0, 0, 0, 0, 0, -3000, -4596, -5638, -6000, -5638, -4596, -3000, 0, 0, 0, 0, 0, 0>>,
     western_detour |-> <<0, 0, 0, 0, 0, 0, 3000, 4596, 5638, 6000, 5638, 4596, 3000, 0, 0, 0, 0, 0, 0>>,
     conservative |-> <<0, 0, 0, 0, 854, -1275, -3244, -4803, -5757, -5985, -5458, -4243, -2492, -428, 1690, 3596, 5048, 5863, 5939, 0, 0, 0, 0>>,
     scenic_route |-> <<0, 0, 0, 0, 2555, 939, -752, -2383, -3825, -4962, -5706, -5997, -5811, -5164, -4107, -2724, -1124, 0, 0, 0, 0>>,
     highway_style |-> <<0, 0, 0, 0, 0, 0, 0, 0, 0, 0, 0>>]


\* the route of one pattern (lines 195-243); coords are (lat, lon) pairs
PatternRoute(pattern, start_coords, end_coords) ==
    [k \in 1..(pattern.waypoints + 1) |->
        LET j == k - 1
            w == PatternWindow(pattern.name)
            bent == InWindow(j, pattern.waypoints, w[1], w[2])
            lat == Interpolate(start_coords[1], end_coords[1], j, pattern.waypoints)
                   + (IF bent THEN PatternLatTerm[pattern.name][k] ELSE 0)
            lon == Interpolate(start_coords[2], end_coords[2], j, pattern.waypoints)
                   + (IF bent THEN PatternLonTerm[pattern.name][k] ELSE 0)
        IN  <<lon, lat>>]

\* sorted(seq, key=Key): Python's sort is stable
SortedBy(seq, Key(_)) ==
    LET Pos(i) == 1 + Cardinality({k \in DOMAIN seq :
                        \/ Key(seq[k]) < Key(seq[i])
                        \/ Key(seq[k]) = Key(seq[i]) /\ k < i})
    IN  [p \in DOMAIN seq |-> seq[CHOOSE i \in DOMAIN seq : Pos(i) = p]]

\* lines 245-257: one analysis per base route
RouteAnalysis(i, pattern, start_coords, end_coords, df) ==
    LET coords == PatternRoute(pattern, start_coords, end_coords)
        exposure_analysis == calculate_detailed_crime_exposure(coords, df).value
    IN  [route_id |-> i - 1, coords |-> coords, pattern |-> pattern.name,
         exposure |-> exposure_analysis,
         safety_level |-> exposure_analysis.risk_level,
         risk_score |-> exposure_analysis.overall_risk_score]

\* RiskScoreKey with the sign turned, which ranks the highest score first
RiskScoreKey_Descending(r) == 0 - r.risk_score

\* key=lambda x: x["risk_score"] (line 264)
RiskScoreKey(r) == r.risk_score

\* lines 259-306: which tiers get an entry, by safety priority
SelectedTiers(safety_priority, green_routes, yellow_routes, red_routes) ==
    LET green == IF green_routes # <<>> THEN {"low_risk"} ELSE {}
        yellow == IF yellow_routes # <<>> THEN {"medium_risk"} ELSE {}
        red == IF red_routes # <<>> THEN {"high_risk"} ELSE {}
    IN  IF safety_priority = "maximum_safety" THEN green \cup yellow
        ELSE IF safety_priority = "fastest" THEN red \cup yellow \cup green
        ELSE green \cup yellow
             \cup (IF Cardinality(green \cup yellow) < 2 THEN red ELSE {})

\* route_analyses: the analysed base routes in generation order
RouteAnalyses(start_coords, end_coords, df) ==
    LET patterns == SubSeq(route_patterns, 1, num_base_routes)
    IN  [i \in DOMAIN patterns |->
            RouteAnalysis(i, patterns[i], start_coords, end_coords, df)]

\* the pair (selected_routes, route_metadata), or the exception of the
\* exposure analysis when the frame lacks a column
generate_safety_filtered_routes(start_coords, end_coords, df, safety_priority) ==
    LET first == calculate_detailed_crime_exposure(
                     PatternRoute(route_patterns[1], start_coords, end_coords), df)
        sorted_routes == SortedBy(RouteAnalyses(start_coords, end_coords, df), RiskScoreKey)
        green_routes == SelectSeq(sorted_routes, LAMBDA r : r.safety_level = "low_risk")
        yellow_routes == SelectSeq(sorted_routes, LAMBDA r : r.safety_level = "medium_risk")
        red_routes == SelectSeq(sorted_routes, LAMBDA r : r.safety_level = "high_risk")
        Best(tier) == CASE tier = "low_risk" -> green_routes[1]
                        [] tier = "medium_risk" -> yellow_routes[1]
                        [] OTHER -> red_routes[1]
        tiers == SelectedTiers(safety_priority, green_routes, yellow_routes, red_routes)
    IN  IF first.status = "raised" THEN first
        ELSE Returned([selected_routes |-> [t \in tiers |-> Best(t).coords],
                       route_metadata |-> [t \in tiers |-> Best(t)]], FALSE)

\* ------------------------------------------------------------------------
\* utils_maps.generate_intelligent_safety_message
\* ------------------------------------------------------------------------
\* max() of a non-empty set of percentages
MaxPct(pcts) == CHOOSE p \in pcts : \A q \in pcts : ~PctLess(p, q)

MinPct(pcts) == CHOOSE p \in pcts : \A q \in pcts : ~PctLess(q, p)

\* a message that interpolates no percentage
NoQuote == 0 - 1

\* f"{p:.1f}" in tenths of a percent: the nearest tenth, an exact half going
\* to the even one (the halves that occur, k/16 * 100, are exact floats)
Tenths(p) ==
    LET whole == (10 * p.num) \div p.den
        rest == (10 * p.num) % p.den
    IN  IF 2 * rest > p.den THEN whole + 1
        ELSE IF 2 * rest < p.den THEN whole
        ELSE IF whole % 2 = 0 THEN whole ELSE whole + 1

\* a message is its text template, the time-of-day sentence appended to it
\* and its level
Message(text, suffix, level) == [text |-> text, suffix |-> suffix, level |-> level]

\* "Night" in time_of_travel
IsNight(time_of_travel) == time_of_travel = "Night (18-6)"

generate_intelligent_safety_message(routes_data, route_metadata, safety_priority, time_of_travel) ==
    IF DOMAIN routes_data = {} \/ DOMAIN route_metadata = {}
    THEN [text |-> "No routes available for the selected criteria.", suffix |-> "",
          level |-> "error", quoted |-> NoQuote]
    ELSE
    LET safety_levels == {route_metadata[t].exposure.risk_level : t \in DOMAIN route_metadata}
        high_crime_exposures ==
            {route_metadata[t].exposure.high_crime_percentage : t \in DOMAIN route_metadata}
        has_safe_route == "low_risk" \in safety_levels
        has_moderate_route == "medium_risk" \in safety_levels
        has_risky_route == "high_risk" \in safety_levels
        max_high_crime_exposure == MaxPct(high_crime_exposures)
        base ==
            IF has_safe_route /\ PctLT(max_high_crime_exposure, ExcellentPct)
            THEN <<"Excellent! Safe routes found", "success", NoQuote>>
            ELSE IF has_safe_route
            THEN <<"Safe routes available!", "success", NoQuote>>
            ELSE IF has_moderate_route /\ ~has_risky_route
            THEN <<"Routes pass through some crime zones", "warning",
                   Tenths(max_high_crime_exposure)>>
            ELSE IF has_moderate_route /\ has_risky_route
            THEN <<"This route passes through medium to high crime risk zones", "warning",
                   NoQuote>>
            ELSE IF has_risky_route
            THEN IF safety_priority = "maximum_safety"
                 THEN <<"No safe routes available for maximum safety settings", "error",
                        NoQuote>>
                 ELSE <<"High crime risk detected", "error", Tenths(max_high_crime_exposure)>>
            ELSE <<"Route analysis completed", "info", NoQuote>>
        suffix ==
            IF IsNight(time_of_travel) /\ has_risky_route
            THEN "Night travel amplifies risks"
            ELSE IF IsNight(time_of_travel)
            THEN "Night travel detected"
            ELSE ""
    IN  [text |-> base[1], suffix |-> suffix, level |-> base[2], quoted |-> base[3]]

\* ------------------------------------------------------------------------
\* free_api_utils: routes from the OSRM service, or simulated ones
\* ------------------------------------------------------------------------
\* 0.002 * sin(i / len(base_route) * pi * 2) at a detour index i (line 200)
SaferLatTerm ==
    [n \in 7..13 |-> [i \in {5, 10} |->
        IF n = 7 /\ i = 5 THEN -1950 ELSE
        IF n = 8 /\ i = 5 THEN -1414 ELSE
        IF n = 9 /\ i = 5 THEN -684 ELSE
        IF n = 10 /\ i = 5 THEN 0 ELSE
        IF n = 11 /\ i = 5 THEN 563 ELSE
        IF n = 12 /\ i = 5 THEN 1000 ELSE
        IF n = 12 /\ i = 10 THEN -1732 ELSE
        IF n = 13 /\ i = 5 THEN 1326 ELSE
        IF n = 13 /\ i = 10 THEN -1985 ELSE
        0]]

\* 0.002 * cos(i / len(base_route) * pi * 1.5) at a detour index i (line 201)
SaferLonTerm ==
    [n \in 7..13 |-> [i \in {5, 10} |->
        IF n = 7 /\ i = 5 THEN -1950 ELSE
        IF n = 8 /\ i = 5 THEN -1962 ELSE
        IF n = 9 /\ i = 5 THEN -1732 ELSE
        IF n = 10 /\ i = 5 THEN -1414 ELSE
        IF n = 11 /\ i = 5 THEN -1081 ELSE
        IF n = 12 /\ i = 5 THEN -765 ELSE
        IF n = 12 /\ i = 10 THEN -1414 ELSE
        IF n = 13 /\ i = 5 THEN -479 ELSE
        IF n = 13 /\ i = 10 THEN -1771 ELSE
        0]]

\* the detour point appended after base_route[i + 1] (0-based index i)
SaferDetour(base_route, i) ==
    LET n == Len(base_route)
        coord == base_route[i + 1]
    IN  <<coord[1] + SaferLonTerm[n][i], coord[2] + SaferLatTerm[n][i]>>

RECURSIVE SaferFrom(_, _)
SaferFrom(base_route, i) ==
    IF i >= Len(base_route) THEN <<>>
    ELSE <<base_route[i + 1]>>
         \o (IF i > 0 /\ i < Len(base_route) - 1 /\ i % 5 = 0
             THEN <<SaferDetour(base_route, i)>> ELSE <<>>)
         \o SaferFrom(base_route, i + 1)

create_safer_variation(base_route) ==
    IF base_route = <<>> \/ Len(base_route) < 3 THEN base_route
    ELSE SaferFrom(base_route, 0)

\* create_balanced_variation without the two lines that ensure the end point
create_balanced_variation_NoEndCheck(base_route) ==
    IF base_route = <<>> \/ Len(base_route) < 3 THEN base_route
    ELSE [k \in 1..((Len(base_route) + 1) \div 2) |-> base_route[2 * k - 1]]

\* every other point, then start and end ensured
create_balanced_variation(base_route) ==
    IF base_route = <<>> \/ Len(base_route) < 3 THEN base_route
    ELSE LET every_other == [k \in 1..((Len(base_route) + 1) \div 2) |-> base_route[2 * k - 1]]
             with_start == IF every_other[1] # base_route[1]
                           THEN <<base_route[1]>> \o every_other ELSE every_other
         IN  IF with_start[Len(with_start)] # base_route[Len(base_route)]
             THEN Append(with_start, base_route[Len(base_route)])
             ELSE with_start

\* what the HTTP call to the service did: it raised (timeout, connection
\* error, malformed body), or answered with a status, a code and routes,
\* each route a record [coordinates, duration]
OsrmRaised == [kind |-> "exception", status_code |-> 0, code |-> "", routes |-> <<>>]

OsrmAnswer(status_code, code, routes) ==
    [kind |-> "response", status_code |-> status_code, code |-> code, routes |-> routes]

DurationKey(r) == r.duration_seconds

\* (routes, route_info), or (None, None)
NoRoutes == [none |-> TRUE, routes |-> <<>>, route_info |-> <<>>]

\* get_free_osrm_routes answering an empty dict where it answers None
get_free_osrm_routes_EmptyDict(osrm) ==
    [none |-> FALSE, routes |-> <<>>, route_info |-> <<>>]

get_free_osrm_routes(osrm) ==
    IF osrm.kind = "exception" THEN NoRoutes
    ELSE IF osrm.status_code = 200 /\ osrm.code = "Ok" /\ osrm.routes # <<>>
    THEN LET first3 == SubSeq(osrm.routes, 1, IF Len(osrm.routes) < OsrmMaxRoutes
                                              THEN Len(osrm.routes) ELSE OsrmMaxRoutes)
             route_info == [k \in DOMAIN first3 |->
                               [coordinates |-> first3[k].coordinates,
                                duration_seconds |-> first3[k].duration]]
             sorted_routes == SortedBy(route_info, DurationKey)
             routes ==
                 IF Len(sorted_routes) >= 3
                 THEN [high_risk |-> sorted_routes[1].coordinates,
                       medium_risk |-> sorted_routes[2].coordinates,
                       low_risk |-> sorted_routes[3].coordinates]
                 ELSE IF Len(sorted_routes) = 2
                 THEN [high_risk |-> sorted_routes[1].coordinates,
                       medium_risk |-> sorted_routes[2].coordinates,
                       low_risk |-> create_safer_variation(sorted_routes[2].coordinates)]
                 ELSE [high_risk |-> sorted_routes[1].coordinates,
                       medium_risk |-> create_balanced_variation(sorted_routes[1].coordinates),
                       low_risk |-> create_safer_variation(sorted_routes[1].coordinates)]
         IN  [none |-> FALSE, routes |-> routes, route_info |-> route_info]
    ELSE NoRoutes

\* waypoints per travel mode; an unknown mode gets the driving parameters
ModeWaypoints(travel_mode) ==
    CASE travel_mode = "walking" -> 25
      [] travel_mode = "cycling" -> 20
      [] OTHER -> 15

ModeKey(travel_mode) ==
    IF travel_mode \in {"walking", "cycling"} THEN travel_mode ELSE "driving"

\* curve_factor * sin(progress * pi * 2) of the balanced route (line 262)
BalancedLatTerm ==
    [driving |-> <<0, 0, 0, 951, 995, 866, 588, 208, -208, -588, -866, -995, -951, 0, 0, 0>>,
     walking |-> <<0, 0, 0, 0, 0, 1427, 1497, 1473, 1357, 1156, 882, 552, 188, -188, -552, -882, -1156, -1357, -1473, -1497, -1427, 0, 0, 0, 0, 0>>,
     cycling |-> <<0, 0, 0, 0, 1141, 1200, 1141, 971, 705, 371, 0, -371, -705, -971, -1141, -1200, -1141, 0, 0, 0, 0>>]

\* curve_factor * cos(progress * pi * 1.5) of the balanced route (line 263)
BalancedLonTerm ==
    [driving |-> <<0, 0, 0, 588, 309, 0, -309, -588, -809, -951, -1000, -951, -809, 0, 0, 0>>,
     walking |-> <<0, 0, 0, 0, 0, 882, 639, 373, 94, -188, -464, -723, -956, -1156, -1314, -1427, -1488, -1497, -1453, -1357, -1214, 0, 0, 0, 0, 0>>,
     cycling |-> <<0, 0, 0, 0, 705, 459, 188, -94, -371, -627, -849, -1023, -1141, -1196, -1185, -1109, -971, 0, 0, 0, 0>>]

\* detour_factor * sin(progress * pi * 3) of the safe route (line 276)
SafeLatTerm ==
    [driving |-> <<0, 0, 1902, 1902, 1176, 0, -1176, -1902, -1902, -1176, 0, 1176, 1902, 1902, 0, 0>>,
     walking |-> <<0, 0, 0, 2714, 2994, 2853, 2312, 1445, 376, -746, -1763, -2533, -2947, -2947, -2533, -1763, -746, 376, 1445, 2312, 2853, 2994, 2714, 0, 0, 0>>,
     cycling |-> <<0, 0, 1942, 2370, 2283, 1697, 742, -375, -1411, -2138, -2400, -2138, -1411, -375, 742, 1697, 2283, 2370, 1942, 0, 0>>]

\* detour_factor * cos(progress * pi * 2) of the safe route (line 277)
SafeLonTerm ==
    [driving |-> <<0, 0, 1338, 618, -209, -1000, -1618, -1956, -1956, -1618, -1000, -209, 618, 1338, 0, 0>>,
     walking |-> <<0, 0, 0, 2187, 1607, 927, 188, -562, -1277, -1912, -2427, -2789, -2976, -2976, -2789, -2427, -1912, -1277, -562, 188, 927, 1607, 2187, 0, 0, 0>>,
     cycling |-> <<0, 0, 1942, 1411, 742, 0, -742, -1411, -1942, -2283, -2400, -2283, -1942, -1411, -742, 0, 742, 1411, 1942, 0, 0>>]


generate_simulated_routes(start_coords, end_coords, travel_mode) ==
    LET waypoints == ModeWaypoints(travel_mode)
        mode == ModeKey(travel_mode)
        Lat(i) == Interpolate(start_coords[1], end_coords[1], i, waypoints)
        Lon(i) == Interpolate(start_coords[2], end_coords[2], i, waypoints)
        direct_route == [k \in 1..(waypoints + 1) |-> <<Lon(k - 1), Lat(k - 1)>>]
        balanced_route == [k \in 1..(waypoints + 1) |->
            IF InWindow(k - 1, waypoints, 20, 80)
            THEN <<Lon(k - 1) + BalancedLonTerm[mode][k], Lat(k - 1) + BalancedLatTerm[mode][k]>>
            ELSE <<Lon(k - 1), Lat(k - 1)>>]
        safe_route == [k \in 1..(waypoints + 1) |->
            IF InWindow(k - 1, waypoints, 10, 90)
            THEN <<Lon(k - 1) + SafeLonTerm[mode][k], Lat(k - 1) + SafeLatTerm[mode][k]>>
            ELSE <<Lon(k - 1), Lat(k - 1)>>]
    IN  [high_risk |-> direct_route, medium_risk |-> balanced_route, low_risk |-> safe_route]

\* exposure and level of one route as create_enhanced_map, the filter and
\* analyze_route_safety compute them; "raised" when either call raises
FreeRouteLevel(route_coords, df) ==
    LET exposure == analyze_route_crime_exposure(route_coords, df)
    IN  IF exposure.status = "raised" THEN exposure
        ELSE LET level == determine_route_safety_level(exposure.value)
             IN  IF level.status = "raised" THEN level
                 ELSE Returned([exposure |-> exposure.value,
                                safety_level |-> level.value.level], FALSE)

\* the route types whose coordinate list is non-empty ("if route_coords:")
NonEmptyRoutes(routes_data) == {t \in DOMAIN routes_data : routes_data[t] # <<>>}

\* lines 750-769 of compute_and_display_safe_route: the priority filter
FilterBySafetyPriority(routes, df, safety_priority) ==
    IF safety_priority = "maximum_safety"
    THEN IF \E t \in NonEmptyRoutes(routes) : FreeRouteLevel(routes[t], df).status = "raised"
         THEN Raised("KeyError", FALSE)
         ELSE LET kept == {t \in NonEmptyRoutes(routes) :
                              FreeRouteLevel(routes[t], df).value.safety_level
                                  \in {"low_risk", "medium_risk"}}
                  filtered_routes == [t \in kept |-> routes[t]]
              IN  Returned(IF kept # {} THEN filtered_routes ELSE routes, FALSE)
    ELSE Returned(routes, FALSE)

\* free_api_utils.analyze_route_safety
analyze_route_safety(routes_data, df, safety_priority, time_of_travel) ==
    IF DOMAIN routes_data = {}
    THEN Returned(Message("No routes available", "", "medium"), FALSE)
    ELSE IF \E t \in NonEmptyRoutes(routes_data) :
                FreeRouteLevel(routes_data[t], df).status = "raised"
    THEN Raised("KeyError", FALSE)
    ELSE IF NonEmptyRoutes(routes_data) = {}
    THEN Returned(Message("No routes could be analyzed", "", "medium"), FALSE)
    ELSE
    LET route_details == [t \in NonEmptyRoutes(routes_data) |->
                             FreeRouteLevel(routes_data[t], df).value]
        route_scores == {route_details[t].exposure.high_crime_percentage :
                            t \in DOMAIN route_details}
        safest_score == MinPct(route_scores)
        safety_levels == {route_details[t].safety_level : t \in DOMAIN route_details}
        has_safe == "low_risk" \in safety_levels
        has_medium == "medium_risk" \in safety_levels
        has_risky == "high_risk" \in safety_levels
    IN  Returned(
            IF has_safe /\ PctLT(safest_score, FreeExcellentPct)
            THEN Message("Excellent! Safe routes found", "", "success")
            ELSE IF has_safe
            THEN Message("Safe routes available!", "", "success")
            ELSE IF has_medium /\ ~has_risky
            THEN Message("Routes pass through some crime zones", "", "warning")
            ELSE IF has_medium /\ has_risky
            THEN Message("This route passes through medium to high crime risk zones", "", "warning")
            ELSE IF has_risky
            THEN IF safety_priority = "maximum_safety"
                 THEN Message("No safe routes available for maximum safety settings", "", "error")
                 ELSE Message("High crime risk detected", "", "error")
            ELSE Message("Route analysis completed", "", "info"),
            FALSE)

\* the order of the keys of every routes dict of free_api_utils (lines
\* 166-176 and 279-283), which the filter and the metadata keep
RouteTypeOrder == <<"high_risk", "medium_risk", "low_risk">>

\* free_api_utils.get_simple_route_safety_message: the first route type with
\* the lowest high_crime_percentage is the best route, and the message quotes
\* the sum of its high and medium percentages
get_simple_route_safety_message(route_metadata, df) ==
    IF DOMAIN route_metadata = {} \/ df.isNone \/ DfEmpty(df)
    THEN [kind |-> "info", text |-> "Route safety information is not available",
          suffix |-> "", quoted |-> NoQuote, best_route |-> ""]
    ELSE
    LET High(t) == route_metadata[t].exposure.high_crime_percentage
        lowest_risk == MinPct({High(t) : t \in DOMAIN route_metadata})
        first == CHOOSE i \in DOMAIN RouteTypeOrder :
                     /\ RouteTypeOrder[i] \in DOMAIN route_metadata
                     /\ ~PctLess(lowest_risk, High(RouteTypeOrder[i]))
                     /\ \A j \in 1..(i - 1) :
                            RouteTypeOrder[j] \in DOMAIN route_metadata =>
                                PctLess(lowest_risk, High(RouteTypeOrder[j]))
        best_route == RouteTypeOrder[first]
        exposure == route_metadata[best_route].exposure
        total_risk_percentage ==
            PctSum(exposure.high_crime_percentage, exposure.medium_crime_percentage)
    IN  [kind |-> IF PctLT(total_risk_percentage, 20) THEN "success"
                  ELSE IF PctLT(total_risk_percentage, 40) THEN "warning"
                  ELSE "error",
         text |-> "The chosen route has crime risk exposure",
         suffix |-> "", quoted |-> Tenths(total_risk_percentage),
         best_route |-> best_route]

\* route_metadata of create_enhanced_map (lines 405-415)
EnhancedMapMetadata(routes_data, df) ==
    IF \E t \in NonEmptyRoutes(routes_data) :
           FreeRouteLevel(routes_data[t], df).status = "raised"
    THEN Raised("KeyError", FALSE)
    ELSE Returned([t \in NonEmptyRoutes(routes_data) |->
                      FreeRouteLevel(routes_data[t], df).value], FALSE)

\* ------------------------------------------------------------------------
\* Inputs of the model
\* ------------------------------------------------------------------------
\* the incident records a data file may hold
IncidentPalette ==
    {RawRow("A", 0, 0, {"ROBBERY"}, 2300),
     RawRow("A", 0, 0 - 4000, {"THEFT"}, 900),
     RawRow("B", 0, 24000, {}, 1000),
     RawRow("B", 0, 6000, {"BURGLARY", "BURGLARY TOOLS"}, 2330),
     RawRow("M", 0, 12000, {"ASSAULT"}, 2200),
     RawRow("M", 2000, 14000, {"VANDALISM"}, BadTime)}

CrimeFiles ==
    {[ok |-> TRUE, rows |-> rows] :
        rows \in {x \in SUBSET IncidentPalette : Cardinality(x) <= MaxIncidents}}
    \cup {[ok |-> FALSE, rows |-> {}]}

Areas == {"A", "B"}

TravelModes == {"driving", "walking", "cycling"}

SafetyPriorities == {"maximum_safety", "balanced", "fastest", "speed_priority"}

TimesOfTravel == {"Any Time", "Morning (6-12)", "Afternoon (12-16)", "Night (18-6)"}

Engines == {"utils_maps", "free_api_utils"}

\* polylines the routing service may answer with, between two (lat, lon) pairs
RoadLine(start_coords, end_coords, n) ==
    [k \in 1..(n + 1) |-> <<Interpolate(start_coords[2], end_coords[2], k - 1, n),
                            Interpolate(start_coords[1], end_coords[1], k - 1, n)>>]

RoadBypass(start_coords, end_coords, n, shift) ==
    [k \in 1..(n + 1) |->
        <<Interpolate(start_coords[2], end_coords[2], k - 1, n),
          Interpolate(start_coords[1], end_coords[1], k - 1, n)
              + (IF k = 1 \/ k = n + 1 THEN 0 ELSE shift)>>]

\* what the service call may do
OsrmOutcomes(start_coords, end_coords) ==
    LET line == RoadLine(start_coords, end_coords, 6)
        short == RoadLine(start_coords, end_coords, 1)
        bypass == RoadBypass(start_coords, end_coords, 7, 9000)
    IN  {OsrmRaised,
         OsrmAnswer(503, "", <<>>),
         OsrmAnswer(200, "NoRoute", <<>>),
         OsrmAnswer(200, "Ok", <<>>),
         OsrmAnswer(200, "Ok", <<[coordinates |-> line, duration |-> 600]>>),
         OsrmAnswer(200, "Ok", <<[coordinates |-> bypass, duration |-> 900],
                                 [coordinates |-> line, duration |-> 600]>>),
         OsrmAnswer(200, "Ok", <<[coordinates |-> bypass, duration |-> 900],
                                 [coordinates |-> line, duration |-> 600],
                                 [coordinates |-> short, duration |-> 500]>>)}

\* ------------------------------------------------------------------------
\* State
\* ------------------------------------------------------------------------
VARIABLES
    crime_file,      \* data/crime_data.parquet: readable or not, and its rows
    pc,              \* where the running query is in compute_and_display_safe_route
    query,           \* the arguments of the running query
    crime_df,        \* the frame the query loaded
    start_coords,    \* (lat, lon) of the start area, <<>> before it is known
    end_coords,      \* (lat, lon) of the end area
    osrm,            \* what the routing service did for this query
    candidates,      \* the routes generated for the query, before selection
    routes,          \* the routes dict of the query (route type -> coords)
    route_metadata,  \* the metadata dict of the query
    page,            \* the messages put on the page, in order
    map_routes,      \* the routes drawn on the map
    result,          \* what compute_and_display_safe_route returned
    call,            \* the last direct call of an analysis function
    previous         \* what the first run showed, while the same query runs again

vars == <<crime_file, pc, query, crime_df, start_coords, end_coords, osrm,
          candidates, routes, route_metadata, page, map_routes, result, call, previous>>

NoQuery ==
    [engine |-> "", start_area |-> "", end_area |-> "", travel_mode |-> "",
     safety_priority |-> "", time_of_travel |-> "", force_safe_route |-> FALSE]

NoOsrm == [kind |-> "none", status_code |-> 0, code |-> "", routes |-> <<>>]

NoCall == [fn |-> "", status |-> ""]

NoPrevious == [result |-> "none"]

\* st.error / st.warning / st.success / st.info
Shown(kind, text, suffix) == [kind |-> kind, text |-> text, suffix |-> suffix]

Init ==
    /\ crime_file \in CrimeFiles
    /\ pc = "idle"
    /\ query = NoQuery
    /\ crime_df = NoneDF
    /\ start_coords = <<>>
    /\ end_coords = <<>>
    /\ osrm = NoOsrm
    /\ candidates = <<>>
    /\ routes = <<>>
    /\ route_metadata = <<>>
    /\ page = <<>>
    /\ map_routes = <<>>
    /\ result = "none"
    /\ call = NoCall
    /\ previous = NoPrevious

\* the user submits the route form
\* the arguments the pages pass: the route form passes force_safe_route =
\* (safety_priority == "maximum_safety") with its priority and time
\* (ui_safety_route lines 170-177, 241-246); the risk scoring page calls the
\* utils_maps function with force_safe_route = (route_preference ==
\* "safest") and leaves safety_priority and time_of_travel at their
\* defaults (risk_scoring lines 153-156)
CallerPasses(engine, safety_priority, time_of_travel, force_safe_route) ==
    \/ force_safe_route = (safety_priority = "maximum_safety")
    \/ /\ engine = "utils_maps"
       /\ safety_priority = "balanced"
       /\ time_of_travel = "Any Time"
       /\ force_safe_route

SubmitQuery ==
    /\ pc = "idle"
    /\ UNCHANGED previous
    /\ call = NoCall
    /\ \E engine \in Engines, start_area \in Areas, end_area \in Areas,
          travel_mode \in TravelModes, safety_priority \in SafetyPriorities,
          time_of_travel \in TimesOfTravel, force_safe_route \in BOOLEAN :
          /\ start_area # end_area
          /\ CallerPasses(engine, safety_priority, time_of_travel, force_safe_route)
          /\ query' = [engine |-> engine, start_area |-> start_area,
                       end_area |-> end_area, travel_mode |-> travel_mode,
                       safety_priority |-> safety_priority,
                       time_of_travel |-> time_of_travel,
                       force_safe_route |-> force_safe_route]
    /\ pc' = "load"
    /\ UNCHANGED <<crime_file, crime_df, start_coords, end_coords, osrm, candidates,
                   routes, route_metadata, page, map_routes, result, call>>

\* return False after st.error(text)
Fail(text) ==
    /\ page' = Append(page, Shown("error", text, ""))
    /\ result' = "False"
    /\ pc' = "done"

\* LoadCrimeData that hands the second run the unfiltered frame
LoadCrimeData_StaleFrame ==
    /\ pc = "load"
    /\ UNCHANGED previous
    /\ LET time == IF previous = NoPrevious THEN query.time_of_travel ELSE "Any Time"
       IN  crime_df' = IF query.engine = "utils_maps"
                       THEN load_time_filtered_crime_data(crime_file, time)
                       ELSE load_crime_data_with_time_filter(crime_file, time)
    /\ pc' = "locate"
    /\ UNCHANGED <<crime_file, query, start_coords, end_coords, osrm, candidates,
                   routes, route_metadata, page, map_routes, result, call>>

\* the first lines of both engines: load the time-filtered frame
LoadCrimeData ==
    /\ pc = "load"
    /\ UNCHANGED previous
    /\ crime_df' = IF query.engine = "utils_maps"
                   THEN load_time_filtered_crime_data(crime_file, query.time_of_travel)
                   ELSE load_crime_data_with_time_filter(crime_file, query.time_of_travel)
    /\ pc' = "locate"
    /\ UNCHANGED <<crime_file, query, start_coords, end_coords, osrm, candidates,
                   routes, route_metadata, page, map_routes, result, call>>

\* ResolveAreas without the start_data.empty / end_data.empty tests
ResolveAreas_Unchecked ==
    /\ pc = "locate"
    /\ UNCHANGED previous
    /\ LET start_data == AreaData(crime_df, query.start_area)
           end_data == AreaData(crime_df, query.end_area)
       IN  IF crime_df.isNone \/ ~({"AREA NAME", "LAT", "LON"} \subseteq crime_df.cols)
           THEN Fail("Could not load crime data") /\ UNCHANGED <<start_coords, end_coords>>
           ELSE /\ start_coords' = IF start_data = {} THEN <<0, 0>> ELSE MeanCoords(start_data)
                /\ end_coords' = IF end_data = {} THEN <<0, 0>> ELSE MeanCoords(end_data)
                /\ pc' = "generate"
                /\ UNCHANGED <<page, result>>
    /\ UNCHANGED <<crime_file, query, crime_df, osrm, candidates, routes,
                   route_metadata, map_routes, call>>

\* the area lookup: crime_df['AREA NAME'] raises KeyError on a frame without
\* that column, which the outer handler reports; an area without rows ends
\* the query
ResolveAreas ==
    /\ pc = "locate"
    /\ UNCHANGED previous
    /\ LET start_data == AreaData(crime_df, query.start_area)
           end_data == AreaData(crime_df, query.end_area)
       IN  IF crime_df.isNone
           THEN Fail("Could not load crime data") /\ UNCHANGED <<start_coords, end_coords>>
           ELSE IF ~({"AREA NAME", "LAT", "LON"} \subseteq crime_df.cols)
           THEN /\ Fail(IF query.engine = "utils_maps" THEN "Error in route computation"
                        ELSE "Error generating routes")
                /\ UNCHANGED <<start_coords, end_coords>>
           ELSE IF start_data = {} \/ end_data = {}
           THEN /\ Fail(IF query.engine = "utils_maps" THEN "No location data found"
                        ELSE "No coordinate data found")
                /\ UNCHANGED <<start_coords, end_coords>>
           ELSE /\ start_coords' = MeanCoords(start_data)
                /\ end_coords' = MeanCoords(end_data)
                /\ pc' = "generate"
                /\ UNCHANGED <<page, result>>
    /\ UNCHANGED <<crime_file, query, crime_df, osrm, candidates, routes,
                   route_metadata, map_routes, call>>

\* st.success / st.warning / st.error, and st.info for any other level
LevelKind(level) == IF level \in {"success", "warning", "error"} THEN level ELSE "info"

\* utils_maps lines 645-654: generate, analyse and select the routes
GenerateSafetyFilteredRoutes ==
    /\ pc = "generate"
    /\ UNCHANGED previous
    /\ query.engine = "utils_maps"
    /\ LET r == generate_safety_filtered_routes(start_coords, end_coords, crime_df,
                                                query.safety_priority)
       IN  IF r.status = "raised"
           THEN /\ Fail("Error in route computation")
                /\ UNCHANGED <<candidates, routes, route_metadata>>
           ELSE /\ candidates' = RouteAnalyses(start_coords, end_coords, crime_df)
                /\ routes' = r.value.selected_routes
                /\ route_metadata' = r.value.route_metadata
                /\ IF DOMAIN r.value.selected_routes = {}
                   THEN Fail("No routes meeting safety criteria found")
                   ELSE pc' = "narrate" /\ UNCHANGED <<page, result>>
    /\ UNCHANGED <<crime_file, query, crime_df, start_coords, end_coords, osrm,
                   map_routes, call>>

\* utils_maps lines 656-669: the safety message
ShowSafetyMessage ==
    /\ pc = "narrate"
    /\ UNCHANGED previous
    /\ query.engine = "utils_maps"
    /\ LET m == generate_intelligent_safety_message(routes, route_metadata,
                    query.safety_priority, query.time_of_travel)
       IN  page' = Append(page, [kind |-> LevelKind(m.level), text |-> m.text,
                                 suffix |-> m.suffix, quoted |-> m.quoted])
    /\ pc' = "display"
    /\ UNCHANGED <<crime_file, query, crime_df, start_coords, end_coords, osrm,
                   candidates, routes, route_metadata, map_routes, result, call>>

\* utils_maps lines 671-847: the map and the analysis panels, return True
DisplayCrimeMap ==
    /\ pc = "display"
    /\ UNCHANGED previous
    /\ query.engine = "utils_maps"
    /\ map_routes' = routes
    /\ result' = "True"
    /\ pc' = "done"
    /\ UNCHANGED <<crime_file, query, crime_df, start_coords, end_coords, osrm,
                   candidates, routes, route_metadata, page, call>>

\* GetFreeOsrmRoutes whose request has no timeout: a service that never
\* answers leaves the query waiting in requests.get
GetFreeOsrmRoutes_NoTimeout ==
    /\ pc = "generate"
    /\ UNCHANGED previous
    /\ query.engine = "free_api_utils"
    /\ \E o \in OsrmOutcomes(start_coords, end_coords) :
          /\ osrm' = o
          /\ IF o = OsrmRaised
             THEN pc' = "waiting" /\ UNCHANGED routes
             ELSE IF get_free_osrm_routes(o).none
             THEN pc' = "fallback" /\ UNCHANGED routes
             ELSE pc' = "filter" /\ routes' = get_free_osrm_routes(o).routes
    /\ UNCHANGED <<crime_file, query, crime_df, start_coords, end_coords, candidates,
                   route_metadata, page, map_routes, result, call>>

\* free_api_utils line 743: the call to the routing service; a service that
\* does not answer within the timeout of line 138 makes requests.get raise
GetFreeOsrmRoutes ==
    /\ pc = "generate"
    /\ UNCHANGED previous
    /\ query.engine = "free_api_utils"
    /\ \E o \in OsrmOutcomes(start_coords, end_coords) :
          /\ osrm' = o
          /\ IF get_free_osrm_routes(o).none
             THEN pc' = "fallback" /\ UNCHANGED routes
             ELSE pc' = "filter" /\ routes' = get_free_osrm_routes(o).routes
    /\ UNCHANGED <<crime_file, query, crime_df, start_coords, end_coords, candidates,
                   route_metadata, page, map_routes, result, call>>

\* free_api_utils lines 745-748: routes is None, simulate the routes
SimulatedFallback ==
    /\ pc = "fallback"
    /\ UNCHANGED previous
    /\ routes' = generate_simulated_routes(start_coords, end_coords, query.travel_mode)
    /\ pc' = "filter"
    /\ UNCHANGED <<crime_file, query, crime_df, start_coords, end_coords, osrm,
                   candidates, route_metadata, page, map_routes, result, call>>

\* free_api_utils lines 750-769: the safety-priority filter
FilterRoutes ==
    /\ pc = "filter"
    /\ UNCHANGED previous
    /\ candidates' = routes
    /\ LET f == FilterBySafetyPriority(routes, crime_df, query.safety_priority)
       IN  IF f.status = "raised"
           THEN Fail("Error generating routes") /\ UNCHANGED routes
           ELSE routes' = f.value /\ pc' = "narrate" /\ UNCHANGED <<page, result>>
    /\ UNCHANGED <<crime_file, query, crime_df, start_coords, end_coords, osrm,
                   route_metadata, map_routes, call>>

\* free_api_utils lines 771-782: analyze_route_safety and its message
AnalyzeRouteSafety ==
    /\ pc = "narrate"
    /\ UNCHANGED previous
    /\ query.engine = "free_api_utils"
    /\ LET m == analyze_route_safety(routes, crime_df, query.safety_priority,
                                     query.time_of_travel)
       IN  IF m.status = "raised"
           THEN Fail("Error generating routes")
           ELSE /\ page' = Append(page, Shown(LevelKind(m.value.level), m.value.text,
                                              m.value.suffix))
                /\ pc' = "display"
                /\ UNCHANGED result
    /\ UNCHANGED <<crime_file, query, crime_df, start_coords, end_coords, osrm,
                   candidates, routes, route_metadata, map_routes, call>>

\* free_api_utils lines 784-961: the map and the panels, return True
DisplayEnhancedMap ==
    /\ pc = "display"
    /\ UNCHANGED previous
    /\ query.engine = "free_api_utils"
    /\ LET meta == EnhancedMapMetadata(routes, crime_df)
       IN  IF meta.status = "raised"
           THEN Fail("Error generating routes") /\ UNCHANGED <<route_metadata, map_routes>>
           ELSE /\ route_metadata' = meta.value
                /\ map_routes' = [t \in NonEmptyRoutes(routes) |-> routes[t]]
                /\ page' = IF DOMAIN routes # {} /\ DOMAIN meta.value # {}
                           THEN Append(page, get_simple_route_safety_message(
                                                 meta.value, crime_df))
                           ELSE page
                /\ result' = "True"
                /\ pc' = "done"
    /\ UNCHANGED <<crime_file, query, crime_df, start_coords, end_coords, osrm,
                   candidates, routes, call>>

\* routes and frames for a direct call of an analysis function
DirectPoints == {<<0, 0>>, <<0 - 4000, 0>>, <<50000, 0>>}

RECURSIVE RoutesUpTo(_)
RoutesUpTo(n) ==
    IF n = 0 THEN {<<>>}
    ELSE RoutesUpTo(n - 1)
         \cup {Append(r, pt) : r \in {x \in RoutesUpTo(n - 1) : Len(x) = n - 1},
                               pt \in DirectPoints \cup {BadPoint}}

DirectRoutes == RoutesUpTo(MaxRouteLen)

\* no frame, an empty frame, the loaded frame, and the loaded frame without
\* its Cluster column
DirectFrames(df) ==
    {NoneDF, Frame(df.cols, {}), df, Frame(df.cols \ {"Cluster"}, df.rows)}

\* a caller (score_route_risk, display_multi_route_map) runs
\* calculate_detailed_crime_exposure on a route and a frame
CallCalculateDetailedCrimeExposure ==
    /\ pc = "idle"
    /\ UNCHANGED previous
    /\ call = NoCall
    /\ \E route \in DirectRoutes,
          df \in DirectFrames(load_time_filtered_crime_data(crime_file, "Any Time")) :
          call' = [fn |-> "calculate_detailed_crime_exposure", status |-> "called",
                   route_coords |-> route, crime_df |-> df,
                   exposure |-> calculate_detailed_crime_exposure(route, df)]
    /\ pc' = "done"
    /\ UNCHANGED <<crime_file, query, crime_df, start_coords, end_coords, osrm,
                   candidates, routes, route_metadata, page, map_routes, result>>

\* a caller (create_enhanced_map, analyze_route_safety) runs
\* analyze_route_crime_exposure and then determine_route_safety_level
CallAnalyzeRouteCrimeExposure ==
    /\ pc = "idle"
    /\ UNCHANGED previous
    /\ call = NoCall
    /\ \E route \in DirectRoutes,
          df \in DirectFrames(load_crime_data_with_time_filter(crime_file, "Any Time")) :
          LET exposure == analyze_route_crime_exposure(route, df)
          IN  call' = [fn |-> "analyze_route_crime_exposure", status |-> "called",
                       route_coords |-> route, crime_df |-> df,
                       exposure |-> exposure,
                       level |-> IF exposure.status = "raised" THEN exposure
                                 ELSE determine_route_safety_level(exposure.value)]
    /\ pc' = "done"
    /\ UNCHANGED <<crime_file, query, crime_df, start_coords, end_coords, osrm,
                   candidates, routes, route_metadata, page, map_routes, result>>

\* base routes for a direct call of the two variations: straight and bent
\* polylines of 2 to 13 points (the lengths the detour tables cover), also
\* between two equal end points
VariationBases ==
    {RoadBypass(<<0, 6000>>, end, n, shift) :
        end \in {<<0, 0 - 4000>>, <<0, 6000>>}, n \in 1..12, shift \in {0, 9000}}

\* get_free_osrm_routes (lines 170-176) runs create_balanced_variation and
\* create_safer_variation on a base route
CallCreateVariation ==
    /\ pc = "idle"
    /\ UNCHANGED previous
    /\ call = NoCall
    /\ \E base_route \in VariationBases :
          call' = [fn |-> "create_variation", status |-> "called",
                   base_route |-> base_route,
                   balanced |-> create_balanced_variation(base_route),
                   safer |-> create_safer_variation(base_route)]
    /\ pc' = "done"
    /\ UNCHANGED <<crime_file, query, crime_df, start_coords, end_coords, osrm,
                   candidates, routes, route_metadata, page, map_routes, result>>

\* routes of a selection handed to a narrator directly: no point or one point
NarratorRoutes == {r \in DirectRoutes : Len(r) <= 1 /\ \A i \in DOMAIN r : IsPoint(r[i])}

\* a caller runs the narrator of one engine on a selection: the route types
\* of tiers each hold route, analysed against the engine's loaded frame
CallNarrator ==
    /\ pc = "idle"
    /\ UNCHANGED previous
    /\ call = NoCall
    /\ \E engine \in Engines, tiers \in SUBSET RiskTiers, route \in NarratorRoutes,
          safety_priority \in SafetyPriorities, time_of_travel \in TimesOfTravel :
          LET routes_data == [t \in tiers |-> route]
              utils_df == load_time_filtered_crime_data(crime_file, "Any Time")
              free_df == load_crime_data_with_time_filter(crime_file, "Any Time")
              metadata == [t \in tiers |->
                  [exposure |-> calculate_detailed_crime_exposure(route, utils_df).value]]
          IN  call' = [fn |-> "narrator", status |-> "called", engine |-> engine,
                       routes_data |-> routes_data,
                       safety_priority |-> safety_priority,
                       time_of_travel |-> time_of_travel,
                       message |->
                           IF engine = "utils_maps"
                           THEN Returned(generate_intelligent_safety_message(
                                    routes_data, metadata, safety_priority,
                                    time_of_travel), FALSE)
                           ELSE analyze_route_safety(routes_data, free_df,
                                    safety_priority, time_of_travel)]
    /\ pc' = "done"
    /\ UNCHANGED <<crime_file, query, crime_df, start_coords, end_coords, osrm,
                   candidates, routes, route_metadata, page, map_routes, result>>

\* Streamlit reruns the script: the finished query's state is gone
Rerun ==
    /\ pc = "done"
    /\ pc' = "idle"
    /\ query' = NoQuery
    /\ crime_df' = NoneDF
    /\ start_coords' = <<>>
    /\ end_coords' = <<>>
    /\ osrm' = NoOsrm
    /\ candidates' = <<>>
    /\ routes' = <<>>
    /\ route_metadata' = <<>>
    /\ page' = <<>>
    /\ map_routes' = <<>>
    /\ result' = "none"
    /\ call' = NoCall
    /\ previous' = NoPrevious
    /\ UNCHANGED crime_file

\* the travel modes of the queries that are run a second time
ResubmitModes == {"driving"}

\* the user submits the same form once more: the script runs again with the
\* same arguments against the same data file
Resubmit ==
    /\ pc = "done"
    /\ query.engine # ""
    /\ query.travel_mode \in ResubmitModes
    /\ previous = NoPrevious
    /\ previous' = [result |-> result, osrm |-> osrm, routes |-> map_routes,
                    route_metadata |-> route_metadata]
    /\ pc' = "load"
    /\ crime_df' = NoneDF
    /\ start_coords' = <<>>
    /\ end_coords' = <<>>
    /\ osrm' = NoOsrm
    /\ candidates' = <<>>
    /\ routes' = <<>>
    /\ route_metadata' = <<>>
    /\ page' = <<>>
    /\ map_routes' = <<>>
    /\ result' = "none"
    /\ UNCHANGED <<crime_file, query, call>>

Next ==
    \/ SubmitQuery
    \/ LoadCrimeData
    \/ ResolveAreas
    \/ GenerateSafetyFilteredRoutes
    \/ ShowSafetyMessage
    \/ DisplayCrimeMap
    \/ GetFreeOsrmRoutes
    \/ SimulatedFallback
    \/ FilterRoutes
    \/ AnalyzeRouteSafety
    \/ DisplayEnhancedMap
    \/ CallCalculateDetailedCrimeExposure
    \/ CallAnalyzeRouteCrimeExposure
    \/ CallNarrator
    \/ CallCreateVariation
    \/ Rerun
    \/ Resubmit

Spec == Init /\ [][Next]_vars

TypeOK == pc \in {"idle", "load", "locate", "generate", "fallback", "filter",
                  "narrate", "display", "done"}

\* ------------------------------------------------------------------------
\* The risk classification on its own: every exposure of a route of up to
\* MaxSegments points
\* ------------------------------------------------------------------------
\* the classification step of each engine applied to the percentages of
\* high and medium segments out of total
ClassifyRisk ==
    /\ pc = "idle"
    /\ UNCHANGED previous
    /\ call = NoCall
    /\ \E total \in 1..MaxSegments :
       \E high \in 0..total :
       \E medium \in 0..(total - high) :
          call' = [fn |-> "risk_level", status |-> "called",
                   high |-> high, medium |-> medium, total |-> total,
                   risk_level |-> RiskLevel(Pct(high, total), Pct(medium, total)),
                   safety_level |-> determine_route_safety_level(
                       [high_crime_exposure |-> high, medium_crime_exposure |-> medium,
                        total_segments |-> total,
                        high_crime_percentage |-> Pct(high, total),
                        medium_crime_percentage |-> Pct(medium, total)]).value.level]
    /\ pc' = "done"
    /\ UNCHANGED <<crime_file, query, crime_df, start_coords, end_coords, osrm,
                   candidates, routes, route_metadata, page, map_routes, result>>

InitRisk ==
    /\ Init
    /\ crime_file = [ok |-> FALSE, rows |-> {}]

NextRisk == ClassifyRisk \/ Rerun

SpecRisk == InitRisk /\ [][NextRisk]_vars

\* ------------------------------------------------------------------------
\* Properties
\* ------------------------------------------------------------------------
UtilsCalled == call.fn = "calculate_detailed_crime_exposure"

FreeCalled == call.fn = "analyze_route_crime_exposure"

QueryDone == pc = "done" /\ query.engine # ""

UtilsGenerated ==
    query.engine = "utils_maps" /\ pc \in {"narrate", "display", "done"} /\ Len(candidates) > 0

FreeGenerated ==
    query.engine = "free_api_utils" /\ pc \in {"narrate", "display", "done"}
    /\ DOMAIN candidates # {}

\* the tiers that have a candidate among the analysed base routes
CandidateTiers == {candidates[i].safety_level : i \in DOMAIN candidates}

\* the computed level of a generated route of the free engine
FreeCandidateLevel(t) == FreeRouteLevel(candidates[t], crime_df).value.safety_level

\* the computed level of a route on the map
SurfacedLevel(t) ==
    IF query.engine = "utils_maps" THEN route_metadata[t].exposure.risk_level
    ELSE route_metadata[t].safety_level

\* C1: every profile returned by calculate_detailed_crime_exposure has
\* high + medium + safe segments equal to total_segments, the number of
\* route points, whatever the route and the incident set
C1_PartitionInvariant ==
    (UtilsCalled /\ call.exposure.status = "returned") =>
        LET e == call.exposure.value
        IN  /\ e.total_segments = Len(call.route_coords)
            /\ e.high_crime_segments + e.medium_crime_segments + e.safe_segments
                   = e.total_segments

\* C2: a finished maximum_safety query of either engine has no route of
\* computed level high_risk on its map
C2_NoHighRiskUnderMaximumSafety ==
    (QueryDone /\ result = "True" /\ query.safety_priority = "maximum_safety") =>
        \A t \in DOMAIN map_routes : SurfacedLevel(t) # "high_risk"

\* C3: under speed_priority or fastest the selection of
\* generate_safety_filtered_routes has a high_risk entry whenever a
\* candidate classifies high_risk
C3_SpeedPriorityIncludesHighRisk ==
    (UtilsGenerated /\ query.safety_priority \in {"speed_priority", "fastest"}
        /\ "high_risk" \in CandidateTiers) =>
        "high_risk" \in DOMAIN routes

\* C4: under balanced every tier that has a candidate has its entry in the
\* selection, so three tiers with candidates give three routes
C4_BalancedKeepsEveryTier ==
    (UtilsGenerated /\ query.safety_priority = "balanced") =>
        DOMAIN routes = CandidateTiers

\* C5: a maximum_safety query whose candidates all classify high_risk ends
\* with nothing on the map and the explicit message that no route meets the
\* safety setting
C5_NoSafeAlternativeOutcome ==
    (QueryDone /\ query.safety_priority = "maximum_safety"
        /\ \/ UtilsGenerated /\ CandidateTiers = {"high_risk"}
           \/ /\ FreeGenerated
              /\ \A t \in DOMAIN candidates : FreeCandidateLevel(t) = "high_risk") =>
        /\ DOMAIN map_routes = {}
        /\ Len(page) > 0
        /\ page[Len(page)].text \in
               {"No routes meeting safety criteria found",
                "No safe routes available for maximum safety settings"}

\* the policy of the design document: High on high_pct or on the sum,
\* Medium on high_pct or on the sum, else Low
CanonicalRiskLevel(high_pct, medium_pct, H_high, H_med, T_high, T_med) ==
    IF PctGT(high_pct, H_high) \/ PctGT(PctSum(high_pct, medium_pct), T_high)
    THEN "high_risk"
    ELSE IF PctGT(high_pct, H_med) \/ PctGT(PctSum(high_pct, medium_pct), T_med)
         THEN "medium_risk"
         ELSE "low_risk"

RiskCalled == call.fn = "risk_level"

LoopRan ==
    /\ call.exposure.status = "returned"
    /\ ~call.crime_df.isNone
    /\ ~DfEmpty(call.crime_df)
    /\ ExposureColumns \subseteq call.crime_df.cols
    /\ call.route_coords # <<>>
    /\ \A i \in DOMAIN call.route_coords : IsPoint(call.route_coords[i])

\* the indices of the route points within r of an incident of cluster c
NearCluster(route, df, c, r) ==
    {i \in DOMAIN route : \E row \in df.rows : row.cluster = c /\ WithinRadius(row, route[i], r)}

\* C7: the counts of the analysis are those of the partition High (a High
\* incident in range), Medium (a Medium incident in range and no High one),
\* Safe (neither): a point in range of both counts as High only
C7_OneClassPerPoint ==
    /\ (UtilsCalled /\ LoopRan) =>
           LET route == call.route_coords
               H == NearCluster(route, call.crime_df, 0, HighCrimeRadius)
               M == NearCluster(route, call.crime_df, 1, MediumCrimeRadius)
               e == call.exposure.value
           IN  /\ e.high_crime_segments = Cardinality(H)
               /\ e.medium_crime_segments = Cardinality(M \ H)
               /\ e.safe_segments = Cardinality(DOMAIN route \ (H \cup M))
    /\ (FreeCalled /\ LoopRan) =>
           LET route == call.route_coords
               H == NearCluster(route, call.crime_df, 0, ProximityThreshold)
               M == NearCluster(route, call.crime_df, 1, ProximityThreshold)
               e == call.exposure.value
           IN  /\ e.high_crime_exposure = Cardinality(H)
               /\ e.medium_crime_exposure = Cardinality(M \ H)
    /\ UtilsGenerated =>
           \A i \in DOMAIN candidates :
               LET route == candidates[i].coords
                   H == NearCluster(route, crime_df, 0, HighCrimeRadius)
                   M == NearCluster(route, crime_df, 1, MediumCrimeRadius)
                   e == candidates[i].exposure
               IN  /\ e.high_crime_segments = Cardinality(H)
                   /\ e.medium_crime_segments = Cardinality(M \ H)
                   /\ e.safe_segments = Cardinality(DOMAIN route \ (H \cup M))

\* an analysed route with a point in range of a High and of a Medium incident
C7_PointNearBoth ==
    /\ UtilsCalled
    /\ LoopRan
    /\ NearCluster(call.route_coords, call.crime_df, 0, HighCrimeRadius)
           \cap NearCluster(call.route_coords, call.crime_df, 1, MediumCrimeRadius) # {}
    /\ call.exposure.value.medium_crime_segments = 0

\* C8: for a non-empty route and an empty or missing incident set both
\* engines give 0% high, 0% medium, 100% safe and Low, and classifying the
\* profile does not raise
C8_EmptyIncidentSetIsSafe ==
    /\ (UtilsCalled /\ (call.crime_df.isNone \/ call.crime_df.rows = {})
           /\ call.route_coords # <<>>) =>
           /\ call.exposure.status = "returned"
           /\ PctEQ(call.exposure.value.high_crime_percentage, 0)
           /\ PctEQ(call.exposure.value.medium_crime_percentage, 0)
           /\ PctEQ(call.exposure.value.safe_percentage, 100)
           /\ call.exposure.value.risk_level = "low_risk"
    /\ (FreeCalled /\ (call.crime_df.isNone \/ call.crime_df.rows = {})
           /\ call.route_coords # <<>>) =>
           /\ call.exposure.status = "returned"
           /\ call.level.status = "returned"
           /\ call.level.value.level = "low_risk"

\* the service call failed: it raised, or answered without usable routes
OsrmFailed ==
    \/ osrm.kind = "exception"
    \/ /\ osrm.kind = "response"
       /\ (osrm.status_code # 200 \/ osrm.code # "Ok" \/ osrm.routes = <<>>)

\* the routes the free engine generated for the query
GeneratedRoutes == IF pc = "filter" THEN routes ELSE candidates

\* C9: after a failed service call the query has generated routes, the
\* straight interpolation from start to end among them, shows no error for
\* the failure and ends with routes on the map
C9_FallbackOnServiceFailure ==
    (query.engine = "free_api_utils" /\ OsrmFailed
        /\ pc \in {"filter", "narrate", "display", "done"}) =>
        /\ \E t \in DOMAIN GeneratedRoutes :
               GeneratedRoutes[t] = RoadLine(start_coords, end_coords,
                                             ModeWaypoints(query.travel_mode))
        /\ \A k \in DOMAIN page : page[k].text # "Error generating routes"
        /\ result # "False"
        /\ (pc = "done" => DOMAIN map_routes # {})

\* a query that finished on simulated routes after the service call raised
C9_FallbackTaken ==
    /\ QueryDone
    /\ query.engine = "free_api_utils"
    /\ osrm.kind = "exception"
    /\ result = "True"
    /\ start_coords # end_coords
    /\ DOMAIN map_routes # {}

\* the bucket of a record by its own TIME OCC (Night when it has none)
RecordBucket(r) ==
    IF r.time_occ = BadTime THEN "Night" ELSE TimeOfDay(TimeOccHour(r.time_occ))

\* the data file has a record with coordinates for the area in the
\* requested time of travel
HasLocation(area) ==
    \E r \in crime_file.rows :
        /\ r.area = area
        /\ \/ query.time_of_travel = "Any Time"
           \/ RecordBucket(r) = TimeMapping(query.time_of_travel)

\* the page shows a narrator message
Narrated ==
    \E k \in DOMAIN page :
        page[k].text \in {"Excellent! Safe routes found", "Safe routes available!",
                          "Routes pass through some crime zones",
                          "This route passes through medium to high crime risk zones",
                          "No safe routes available for maximum safety settings",
                          "High crime risk detected", "Route analysis completed"}

\* C10: a finished query either shows a non-empty, narrated selection, or
\* reports that no route meets the safety setting, or was aborted because
\* the start or end area has no coordinates; a malformed record or a failed
\* service call never ends it otherwise
C10_OnlyMissingLocationAborts ==
    QueryDone =>
        \/ result = "True" /\ DOMAIN map_routes # {} /\ Narrated
        \/ /\ result = "False"
           /\ Len(page) > 0
           /\ page[Len(page)].text = "No routes meeting safety criteria found"
        \/ /\ result = "False"
           /\ Len(page) > 0
           /\ page[Len(page)].kind = "error"
           /\ ~(HasLocation(query.start_area) /\ HasLocation(query.end_area))

\* the loaded frame has a row of the area
AreaResolvable(area) == \E r \in crime_df.rows : r.area = area

\* the frame was loaded with the columns the area lookup reads
FrameLoaded == ~crime_df.isNone /\ {"AREA NAME", "LAT", "LON"} \subseteq crime_df.cols

\* no route was requested, generated, analysed, selected or drawn
NothingGenerated ==
    /\ osrm = NoOsrm
    /\ candidates = <<>>
    /\ routes = <<>>
    /\ route_metadata = <<>>
    /\ map_routes = <<>>

\* C11: a query whose start or end area has no row in the loaded frame ends
\* with one error message naming the missing location data and with
\* failure, and as long as an endpoint has no coordinates nothing is
\* generated, analysed, narrated or drawn
C11_MissingLocationFailsFast ==
    /\ (QueryDone /\ FrameLoaded
           /\ ~(AreaResolvable(query.start_area) /\ AreaResolvable(query.end_area))) =>
           /\ result = "False"
           /\ Len(page) = 1
           /\ page[1].kind = "error"
           /\ page[1].text \in {"No location data found", "No coordinate data found"}
           /\ NothingGenerated
    /\ (query.engine # "" /\ (start_coords = <<>> \/ end_coords = <<>>)) =>
           /\ NothingGenerated
           /\ ~Narrated
           /\ result # "True"

\* a query aborted because the time-filtered frame has rows but none of an
\* endpoint's area
C11_AbortedOnMissingArea ==
    /\ QueryDone
    /\ FrameLoaded
    /\ crime_df.rows # {}
    /\ ~AreaResolvable(query.end_area)
    /\ result = "False"

NarratorCalled == call.fn = "narrator"

Statuses == {"success", "warning", "error", "info"}

\* C12: a narrator called on any selection returns a message whose status is
\* success, warning, error or info, and on an empty selection that message
\* is the 'no routes' one; every message put on the page has such a status
C12_NarratorStatus ==
    /\ NarratorCalled =>
           /\ call.message.status = "returned"
           /\ call.message.value.level \in Statuses
           /\ DOMAIN call.routes_data = {} =>
                  call.message.value.text \in
                      {"No routes available for the selected criteria.",
                       "No routes available"}
    /\ \A k \in DOMAIN page : page[k].kind \in Statuses

\* ------------------------------------------------------------------------
\* The record classification on its own: add_time_of_day and the two
\* severity classifiers applied to frames of up to MaxRecords records
\* ------------------------------------------------------------------------
\* TIME OCC values at the edges of every bucket, and one that is no number
TimePalette == {0, 559, 600, 1159, 1200, 1559, 1600, 1759, 1800, 2359, BadTime}

\* keyword sets of descriptions: no text, Medium only, High only, both, a
\* word the two engines rank differently, and a word only utils_maps knows
DescPalette ==
    {{}, {"THEFT"}, {"ROBBERY"}, {"BURGLARY", "BURGLARY TOOLS"}, {"BATTERY"},
     {"ASSAULT", "VEHICLE"}, {"PICKPOCKET"}}

RecordPalette == {RawRow("A", 0, 0, desc, t) : desc \in DescPalette, t \in TimePalette}

\* the frames of at most n records
RECURSIVE FramesUpTo(_)
FramesUpTo(n) ==
    IF n = 0 THEN {{}}
    ELSE FramesUpTo(n - 1)
         \cup {x \cup {r} : x \in FramesUpTo(n - 1), r \in RecordPalette}

\* a frame of records, with or without its 'TIME OCC' column, goes through
\* add_time_of_day and through the classifier of each engine
ClassifyRecords ==
    /\ pc = "idle"
    /\ UNCHANGED previous
    /\ call = NoCall
    /\ \E has_time_occ \in BOOLEAN :
       \E rows \in FramesUpTo(MaxRecords) :
          LET cols == IF has_time_occ THEN RawColumns ELSE RawColumns \ {"TIME OCC"}
              timed == add_time_of_day_frame(Frame(cols, rows))
              TodOf(r) == (CHOOSE c \in timed.rows :
                              c.desc = r.desc /\ c.time_occ = r.time_occ).tod
          IN  call' = [fn |-> "classify", status |-> "called",
                       has_time_occ |-> has_time_occ,
                       rows |-> rows,
                       given |-> Frame(cols, rows),
                       argument |-> add_time_of_day_argument(Frame(cols, rows)),
                       returned |-> timed,
                       classified |-> [r \in rows |->
                           [tod |-> TodOf(r),
                            advanced |-> classify_advanced_crime_severity(r),
                            severity |-> classify_crime_severity(r)]]]
    /\ pc' = "done"
    /\ UNCHANGED <<crime_file, query, crime_df, start_coords, end_coords, osrm,
                   candidates, routes, route_metadata, page, map_routes, result>>

InitClassify ==
    /\ Init
    /\ crime_file = [ok |-> FALSE, rows |-> {}]

NextClassify == ClassifyRecords \/ Rerun

SpecClassify == InitClassify /\ [][NextClassify]_vars

ClassifyCalled == call.fn = "classify"

\* C13: in a frame with a TIME OCC column, a record with hour h = TIME OCC
\* div 100 is Morning for 6 <= h < 12, Afternoon for 12 <= h < 16, Evening
\* for 16 <= h < 18 and Night for every other hour
C13_TimeBuckets ==
    (ClassifyCalled /\ call.has_time_occ) =>
        \A r \in call.rows :
            r.time_occ # BadTime =>
                LET h == r.time_occ \div 100
                    tod == call.classified[r].tod
                IN  /\ (6 <= h /\ h < 12) => tod = "Morning"
                    /\ (12 <= h /\ h < 16) => tod = "Afternoon"
                    /\ (16 <= h /\ h < 18) => tod = "Evening"
                    /\ (h < 6 \/ h >= 18) => tod = "Night"

\* C14: every record gets a severity in High/Medium/Low (0/1/2) and a bucket
\* in Morning/Afternoon/Evening/Night; a record without category text is
\* Low, and a record whose time is missing or malformed is Night
C14_DefaultClassification ==
    ClassifyCalled =>
        \A r \in call.rows :
            LET c == call.classified[r]
            IN  /\ c.advanced \in {0, 1, 2}
                /\ c.severity \in {0, 1, 2}
                /\ r.desc = {} => (c.advanced = 2 /\ c.severity = 2)
                /\ c.tod \in {"Morning", "Afternoon", "Evening", "Night"}
                /\ (r.time_occ = BadTime \/ ~call.has_time_occ) => c.tod = "Night"

\* C15: in each engine a description with a keyword of the engine's High
\* list is High whether or not it also has a Medium keyword, one with only
\* Medium keywords is Medium, and one with neither is Low
C15_HighBeforeMedium ==
    ClassifyCalled =>
        \A r \in call.rows :
            LET c == call.classified[r]
            IN  /\ c.advanced = 0 <=> r.desc \cap high_severity_keywords # {}
                /\ c.advanced = 1 <=> (r.desc \cap high_severity_keywords = {}
                                         /\ r.desc \cap medium_severity_keywords # {})
                /\ c.advanced = 2 <=> r.desc \cap (high_severity_keywords
                                         \cup medium_severity_keywords) = {}
                /\ c.severity = 0 <=> r.desc \cap serious_crimes # {}
                /\ c.severity = 1 <=> (r.desc \cap serious_crimes = {}
                                         /\ r.desc \cap medium_crimes # {})
                /\ c.severity = 2 <=> r.desc \cap (serious_crimes \cup medium_crimes) = {}

\* a record whose description has a High and a Medium keyword of both
\* engines and is High in both
C15_MatchesBothSets ==
    /\ ClassifyCalled
    /\ \E r \in call.rows :
          /\ r.desc \cap high_severity_keywords # {}
          /\ r.desc \cap medium_severity_keywords # {}
          /\ r.desc \cap serious_crimes # {}
          /\ r.desc \cap medium_crimes # {}
          /\ call.classified[r].advanced = 0
          /\ call.classified[r].severity = 0

\* 3 * high segments + 1 * medium segments of an analysed candidate
WeightedRiskScore(c) ==
    3 * c.exposure.high_crime_segments + c.exposure.medium_crime_segments

\* C16: the entry selected for a tier is a candidate of that tier whose
\* weighted score 3*high + medium is the lowest of the tier and, among the
\* candidates with that score, the one generated first; the level of every
\* candidate follows from its percentages alone
C16_LowestScoreEarliestPattern ==
    UtilsGenerated =>
        /\ \A t \in DOMAIN routes :
               LET m == route_metadata[t]
                   id == m.route_id + 1
               IN  /\ id \in DOMAIN candidates
                   /\ candidates[id] = m
                   /\ routes[t] = m.coords
                   /\ m.safety_level = t
                   /\ m.risk_score = WeightedRiskScore(m)
                   /\ \A j \in DOMAIN candidates :
                          candidates[j].safety_level = t =>
                              \/ WeightedRiskScore(candidates[j]) > WeightedRiskScore(m)
                              \/ /\ WeightedRiskScore(candidates[j]) = WeightedRiskScore(m)
                                 /\ j >= id
        /\ \A i \in DOMAIN candidates :
               LET h == candidates[i].exposure.high_crime_segments
                   m == candidates[i].exposure.medium_crime_segments
                   n == candidates[i].exposure.total_segments
               IN  candidates[i].safety_level =
                       (IF 100 * h > 15 * n THEN "high_risk"
                        ELSE IF 100 * h > 5 * n \/ 100 * m > 30 * n THEN "medium_risk"
                        ELSE "low_risk")

\* a selection in which a tier had a tie on its lowest non-zero score, the
\* earlier pattern was chosen, and some high_risk candidate has a lower
\* score than the choice of a lower tier
C16_TieAndScoreAgainstLevel ==
    /\ UtilsGenerated
    /\ \E t \in DOMAIN routes : \E j \in DOMAIN candidates :
          /\ j > route_metadata[t].route_id + 1
          /\ candidates[j].safety_level = t
          /\ WeightedRiskScore(candidates[j]) > 0
          /\ WeightedRiskScore(candidates[j]) = WeightedRiskScore(route_metadata[t])
    /\ \E t \in DOMAIN routes \ {"high_risk"} : \E j \in DOMAIN candidates :
          /\ candidates[j].safety_level = "high_risk"
          /\ WeightedRiskScore(candidates[j]) < WeightedRiskScore(route_metadata[t])

\* C17: the routes of a finished query are keyed by risk tier, at most one
\* per tier, and the route under a tier key has that computed risk level
C17_EntryMatchesTierKey ==
    (QueryDone /\ result = "True") =>
        /\ DOMAIN map_routes \subseteq RiskTiers
        /\ Cardinality(DOMAIN map_routes) <= 3
        /\ \A t \in DOMAIN map_routes : SurfacedLevel(t) = t

\* the time-of-day sentence a message must carry for a time of travel
QualifierFor(time_of_travel, suffix) ==
    /\ time_of_travel = "Night (18-6)" =>
           suffix \in {"Night travel amplifies risks", "Night travel detected"}
    /\ time_of_travel = "Morning (6-12)" => suffix # ""

\* the message the engine's narrator put on the page, which the
\* 'Route Safety Information' text of free_api_utils may follow
NarratorEntry ==
    page[CHOOSE k \in DOMAIN page :
             /\ page[k].text # "The chosen route has crime risk exposure"
             /\ \A j \in (k + 1)..Len(page) :
                    page[j].text = "The chosen route has crime risk exposure"]

\* C18: the message of a narrator for a non-empty selection ends with an
\* elevated-risk warning when the time of travel is Night and with a
\* reassurance when it is Morning, in a direct call and on the page
C18_TimeOfDayQualifier ==
    /\ (NarratorCalled /\ call.message.status = "returned"
           /\ DOMAIN call.routes_data # {}) =>
           QualifierFor(call.time_of_travel, call.message.value.suffix)
    /\ (QueryDone /\ result = "True") =>
           QualifierFor(query.time_of_travel, NarratorEntry.suffix)

\* the records of the data file in the bucket the query asks for, each by
\* its own TIME OCC
BucketRows ==
    {r \in crime_file.rows :
        \/ query.time_of_travel = "Any Time"
        \/ RecordBucket(r) = TimeMapping(query.time_of_travel)}

\* the points of a route in range r of a record of the requested bucket
\* that Severity ranks c
NearBucket(route, Severity(_), c, r) ==
    {i \in DOMAIN route :
        \E row \in BucketRows : Severity(row) = c /\ WithinRadius(row, route[i], r)}

\* C19: the high and medium counts of every route analysed for a query are
\* those of the incidents of the requested bucket alone (of all incidents
\* with 'Any Time'): incidents of other buckets do not contribute
C19_OnlyRequestedBucketCounts ==
    /\ UtilsGenerated =>
           \A i \in DOMAIN candidates :
               LET route == candidates[i].coords
                   H == NearBucket(route, classify_advanced_crime_severity, 0, HighCrimeRadius)
                   M == NearBucket(route, classify_advanced_crime_severity, 1, MediumCrimeRadius)
               IN  /\ candidates[i].exposure.high_crime_segments = Cardinality(H)
                   /\ candidates[i].exposure.medium_crime_segments = Cardinality(M \ H)
    /\ (QueryDone /\ query.engine = "free_api_utils" /\ result = "True") =>
           \A t \in DOMAIN route_metadata :
               LET route == map_routes[t]
                   H == NearBucket(route, classify_crime_severity, 0, ProximityThreshold)
                   M == NearBucket(route, classify_crime_severity, 1, ProximityThreshold)
               IN  /\ route_metadata[t].exposure.high_crime_exposure = Cardinality(H)
                   /\ route_metadata[t].exposure.medium_crime_exposure = Cardinality(M \ H)

\* the same query has run twice and the second run is finished
RanTwice == QueryDone /\ previous # NoPrevious

\* what the finished run selected
Selection == [result |-> result, routes |-> map_routes, route_metadata |-> route_metadata]

\* what the first run selected
PreviousSelection ==
    [result |-> previous.result, routes |-> previous.routes,
     route_metadata |-> previous.route_metadata]

PreviousOsrmFailed ==
    \/ previous.osrm.kind = "exception"
    \/ /\ previous.osrm.kind = "response"
       /\ (previous.osrm.status_code # 200 \/ previous.osrm.code # "Ok"
           \/ previous.osrm.routes = <<>>)

C22_ArgumentFrameUnchanged ==
    ClassifyCalled => call.argument = call.given

\* the Route Safety Guide printed under the map (free_api_utils lines
\* 913-922, the same text in ui_safety_route and app): Safe below 20%,
\* Moderate from 20% to 40%, High Risk above 40% crime zone exposure
RouteSafetyGuide(exposure_pct) ==
    IF PctLT(exposure_pct, 20) THEN "low_risk"
    ELSE IF PctGT(exposure_pct, 40) THEN "high_risk"
    ELSE "medium_risk"

\* C23: the level (and with it the colour) each engine gives a route is the
\* one of the Route Safety Guide for the share of the route's points that
\* lie in a crime zone: Safe below 20%, Moderate 20-40%, High Risk above 40%
C23_LevelFollowsGuide ==
    RiskCalled =>
        LET exposure_pct == Pct(call.high + call.medium, call.total)
        IN  /\ call.safety_level = RouteSafetyGuide(exposure_pct)
            /\ call.risk_level = RouteSafetyGuide(exposure_pct)

\* C24: a finished query that was passed force_safe_route = True has no
\* route of computed level high_risk on its map
C24_NoHighRiskWhenForcedSafe ==
    (QueryDone /\ result = "True" /\ query.force_safe_route) =>
        \A t \in DOMAIN map_routes : SurfacedLevel(t) # "high_risk"

\* the lowest high-crime percentage among the routes of the selection, as
\* the message prints a percentage
LowestHighExposure ==
    Tenths(MinPct({route_metadata[t].exposure.high_crime_percentage :
                      t \in DOMAIN route_metadata}))

\* C25: a percentage that a message on the page of a finished query quotes
\* is the high-crime exposure of the route of the selection with the lowest
\* high-crime exposure
C25_QuotesLowestHighExposure ==
    (QueryDone /\ result = "True" /\ DOMAIN route_metadata # {}) =>
        \A k \in DOMAIN page :
            ("quoted" \in DOMAIN page[k] /\ page[k].quoted # NoQuote) =>
                page[k].quoted = LowestHighExposure

\* Low < Medium < High
LevelRank(level) ==
    CASE level = "low_risk" -> 0
      [] level = "medium_risk" -> 1
      [] level = "high_risk" -> 2

\* the profiles that the profile (high, medium) of total points becomes when
\* one point goes from Safe to Medium, from Safe to High or from Medium to
\* High
Reclassified(high, medium, total) ==
    {<<high, medium + 1>> : x \in {1} \cap (1..(total - high - medium))}
    \cup {<<high + 1, medium>> : x \in {1} \cap (1..(total - high - medium))}
    \cup {<<high + 1, medium - 1>> : x \in {1} \cap (1..medium)}

\* C26: for the same number of points, the level either engine gives a
\* profile after one point went from Safe to Medium, from Safe to High or
\* from Medium to High is not below the level it gave before
C26_LevelMonotone ==
    RiskCalled =>
        \A p \in Reclassified(call.high, call.medium, call.total) :
            /\ LevelRank(RiskLevel(Pct(p[1], call.total), Pct(p[2], call.total)))
                   >= LevelRank(call.risk_level)
            /\ LevelRank(FreeSafetyLevel(Pct(p[1], call.total), Pct(p[2], call.total)))
                   >= LevelRank(call.safety_level)

\* a direct call whose frame has rows but lacks one of Cluster, LAT, LON
MalformedFrame ==
    /\ ~call.crime_df.isNone
    /\ ~DfEmpty(call.crime_df)
    /\ ~(ExposureColumns \subseteq call.crime_df.cols)

\* C27: a call of calculate_detailed_crime_exposure or of
\* analyze_route_crime_exposure returns, and on a frame that lacks the
\* Cluster, LAT or LON column it returns zero exposure with total_segments
\* equal to the number of route points
C27_AnalysisNeverRaises ==
    /\ UtilsCalled =>
           /\ call.exposure.status = "returned"
           /\ MalformedFrame =>
                  /\ call.exposure.value.high_crime_segments = 0
                  /\ call.exposure.value.medium_crime_segments = 0
                  /\ call.exposure.value.total_segments = Len(call.route_coords)
    /\ FreeCalled =>
           /\ call.exposure.status = "returned"
           /\ MalformedFrame =>
                  /\ call.exposure.value.high_crime_exposure = 0
                  /\ call.exposure.value.medium_crime_exposure = 0
                  /\ call.exposure.value.total_segments = Len(call.route_coords)

\* the bucket add_time_of_day gives record r when r is the only record of
\* the frame
BucketAlone(r, cols) ==
    (CHOOSE c \in add_time_of_day_frame(Frame(cols, {r})).rows : TRUE).tod

\* C28: the bucket of a record in a frame is the bucket the record gets on
\* its own, whatever the TIME OCC values of the other records of the frame
C28_BucketFromOwnTime ==
    ClassifyCalled =>
        \A r \in call.rows :
            call.classified[r].tod = BucketAlone(r, call.given.cols)

\* the frame the query's engine loads from the data file for a time of travel
FrameFor(time_of_travel) ==
    IF query.engine = "utils_maps"
    THEN load_time_filtered_crime_data(crime_file, time_of_travel)
    ELSE load_crime_data_with_time_filter(crime_file, time_of_travel)

\* the query ended at the area lookup for want of rows of an area
FailedOnLocation ==
    /\ QueryDone
    /\ result = "False"
    /\ Len(page) = 1
    /\ page[1].text \in {"No location data found", "No coordinate data found"}

\* C29: the coordinates a query resolved for its two areas are the ones the
\* same areas and data file give for every other time of travel, and a
\* query that ended for missing location data would have ended so for every
\* other time of travel
C29_CoordinatesSameForEveryTime ==
    \A time_of_travel \in TimesOfTravel :
        LET start_data == AreaData(FrameFor(time_of_travel), query.start_area)
            end_data == AreaData(FrameFor(time_of_travel), query.end_area)
        IN  /\ (query.engine # "" /\ start_coords # <<>>) =>
                   /\ start_data # {}
                   /\ end_data # {}
                   /\ MeanCoords(start_data) = start_coords
                   /\ MeanCoords(end_data) = end_coords
            /\ FailedOnLocation => (start_data = {} \/ end_data = {})

\* the route has at least two points, the first is first and the last is last
RouteFromTo(route, first, last) ==
    /\ Len(route) >= 2
    /\ route[1] = first
    /\ route[Len(route)] = last

\* a variation of base_route: as long as 2 points, same first and last point
VariationOf(route, base_route) ==
    RouteFromTo(route, base_route[1], base_route[Len(base_route)])

\* [lon, lat] of a (lat, lon) pair
PointOf(coords) == <<coords[2], coords[1]>>

VariationCalled == call.fn = "create_variation"

\* the query of free_api_utils has its routes from the service or from
\* generate_simulated_routes and has not filtered them yet
FreeRoutesDrawn == query.engine = "free_api_utils" /\ pc = "filter"

\* C30: each of the eight candidates of generate_safety_filtered_routes and
\* each route of generate_simulated_routes has at least 2 points, the first
\* the start and the last the end of the query; a variation that
\* create_safer_variation or create_balanced_variation makes of a base route
\* of at least 2 points has at least 2 points and the first and last point
\* of its base, in a direct call and in the routes made from the service's
\* answer
C30_RoutesRunStartToEnd ==
    /\ UtilsGenerated =>
           \A i \in DOMAIN candidates :
               RouteFromTo(candidates[i].coords, PointOf(start_coords), PointOf(end_coords))
    /\ (FreeRoutesDrawn /\ get_free_osrm_routes(osrm).none) =>
           \A t \in DOMAIN routes :
               RouteFromTo(routes[t], PointOf(start_coords), PointOf(end_coords))
    /\ (FreeRoutesDrawn /\ ~get_free_osrm_routes(osrm).none) =>
           /\ Len(osrm.routes) = 2 => VariationOf(routes.low_risk, routes.medium_risk)
           /\ Len(osrm.routes) = 1 =>
                  /\ VariationOf(routes.medium_risk, routes.high_risk)
                  /\ VariationOf(routes.low_risk, routes.high_risk)
    /\ VariationCalled =>
           /\ VariationOf(call.balanced, call.base_route)
           /\ VariationOf(call.safer, call.base_route)

\* a base route with an even number of points, of which the balanced
\* variation keeps every other one and then the last, and to which the safer
\* variation adds a detour point
C30_EndPointAppended ==
    /\ VariationCalled
    /\ Len(call.base_route) = 8
    /\ call.base_route[7] # call.base_route[8]
    /\ Len(call.balanced) = 5
    /\ Len(call.safer) = 9

\* ------------------------------------------------------------------------
\* The query pipeline on its own, with the steps of a running query taken
\* one after the other until it returns
\* ------------------------------------------------------------------------
\* a step of the running compute_and_display_safe_route
RunStep ==
    \/ LoadCrimeData
    \/ ResolveAreas
    \/ GenerateSafetyFilteredRoutes
    \/ ShowSafetyMessage
    \/ DisplayCrimeMap
    \/ GetFreeOsrmRoutes
    \/ SimulatedFallback
    \/ FilterRoutes
    \/ AnalyzeRouteSafety
    \/ DisplayEnhancedMap

NextLive == SubmitQuery \/ RunStep \/ Rerun

\* the program points of a running compute_and_display_safe_route
RunningPcs == {"load", "locate", "generate", "fallback", "filter",
               "narrate", "display"}

\* the running call moves on to another program point; under NextLive
\* these are exactly the RunStep steps (C21_RunStepMovesOn), and one can be
\* taken at every program point of RunningPcs
MovesOn ==
    /\ pc \in RunningPcs
    /\ pc' \in (RunningPcs \cup {"done"}) \ {pc}

\* a called function keeps running: the interpreter executes the next
\* statement of the running call
SpecLive == Init /\ [][NextLive]_vars /\ WF_pc(MovesOn)

\* every step of a running query is a RunStep and moves to another program
\* point
C21_RunStepMovesOn ==
    [][(pc \in RunningPcs) => (RunStep /\ MovesOn)]_vars

\* C21: every submitted query returns True or False, whatever the routing
\* service does: a request that is not answered in time raises, and every
\* failure of the service leads to the simulated routes
C21_QueryCompletes ==
    (pc = "load") ~> (pc = "done" /\ result \in {"True", "False"})

\* a query of the free engine that returned after the request raised
C21_ReturnedAfterRequestRaised ==
    /\ pc = "done"
    /\ query.engine = "free_api_utils"
    /\ osrm = OsrmRaised
    /\ result \in {"True", "False"}
    /\ Len(page) > 0

====
